---- MODULE Spec2Model ----
(***************************************************************************)
(* k8s-resource-validator: the validation orchestrator of pkg/validation,  *)
(* and, in the second half of the module, the built-in validators.         *)
(*                                                                         *)
(* One Validation instance (the record v), the package-level flag          *)
(* alreadyTriedToConnect, and one caller that sets the instance up and     *)
(* calls Validate any number of times.  A Validate call is followed        *)
(* statement by statement through preValidate and the validator loop; pc   *)
(* is the position inside the call.  The cluster, the file system and the  *)
(* custom abort predicate are the environment: what they answer is chosen  *)
(* when the code asks, and recorded in hist.                               *)
(***************************************************************************)
EXTENDS Integers, Sequences, FiniteSets, TLC

VARIABLES
    v,                      \* the Validation instance (struct Validation)
    alreadyTriedToConnect,  \* package variable of connect.go
    pc,                     \* position of the caller / of the running Validate
    call,                   \* locals of the running Validate call
    ret,                    \* what the last Validate call returned
    hist                    \* record of what the environment was asked and answered

vars == <<v, alreadyTriedToConnect, pc, call, ret, hist>>

(***************************************************************************)
(* Bounds of the model.                                                    *)
(***************************************************************************)
MaxValidators == 2      \* longest validator list handed to Validate
MaxViolations == 2      \* most violations one validator returns
MaxAdditional == 2      \* entries of additionalResourceTypes.yaml
MaxItemsPerKind == 2    \* resources of one kind in the cluster

Nil == "nil"

SeqUpTo(S, n) == UNION {[1..k -> S] : k \in 0..n}

RECURSIVE Flatten(_)
Flatten(ss) == IF ss = <<>> THEN <<>> ELSE Head(ss) \o Flatten(Tail(ss))

(***************************************************************************)
(* Resources of the cluster and the list calls of the dynamic client.      *)
(***************************************************************************)
GVR(group, version, resource) ==
    [Group |-> group, Version |-> version, Resource |-> resource]

\* The eight kinds fetchResources always lists, in the order of its code.
DefaultResourceTypes ==
    << GVR("", "v1", "pods"),
       GVR("apps", "v1", "deployments"),
       GVR("apps", "v1", "replicasets"),
       GVR("apps", "v1", "statefulsets"),
       GVR("", "v1", "replicationcontrollers"),
       GVR("apps", "v1", "daemonsets"),
       GVR("batch", "v1", "jobs"),
       GVR("batch", "v1", "cronjobs") >>

\* Kinds an additionalResourceTypes.yaml may name; "pods" names a default kind again.
AdditionalPool == { GVR("", "v1", "configmaps"), GVR("", "v1", "pods") }

ResourceNames ==
    {DefaultResourceTypes[i].Resource : i \in DOMAIN DefaultResourceTypes}
        \cup {g.Resource : g \in AdditionalPool}

Item(resource, n) == [kind |-> resource, name |-> n, namespace |-> "ns"]

\* What the cluster holds: for each kind, how many resources.
MixedInventory ==
    [r \in ResourceNames |->
        IF r \in {"pods", "jobs"} THEN MaxItemsPerKind
        ELSE IF r \in {"deployments", "daemonsets"} THEN 0 ELSE 1]

Inventories ==
    { [r \in ResourceNames |-> c] : c \in 1..MaxItemsPerKind } \cup { MixedInventory }

\* The environment of one fetch: the inventory, and which list calls fail
\* (by position in the order fetchResources makes them).
FetchEnvs(n) ==
    { [inventory |-> inv, failing |-> f] : inv \in Inventories, f \in SUBSET (1..n) }

\* The fetch environments of the orchestrator runs: one cluster, with every list
\* call answered, with the pods unavailable, or with nothing available.
RunFetchEnvs(n) ==
    { [inventory |-> MixedInventory, failing |-> f] : f \in {{}, {1}, 1..n} }

\* client.dynamic.Resource(gvr).List: the n-th list call of a fetch.
List(env, n, gvr) ==
    IF n \in env.failing
    THEN [err |-> "list error", Items |-> <<>>]
    ELSE [err |-> Nil,
          Items |-> [i \in 1..env.inventory[gvr.Resource] |-> Item(gvr.Resource, i)]]

fetchResourcesOfKind(env, n, gvr) ==
    LET resources == List(env, n, gvr)
    IN  IF resources.err # Nil THEN <<>> ELSE resources.Items

fetchResourcesStopAtFailure(env, additionalResourceTypes) ==
    \* faulty variant: the first failed list call ends the fetch
    LET gvrs == DefaultResourceTypes \o additionalResourceTypes
        ok(n) == \A m \in 1..n : m \notin env.failing
    IN  Flatten([n \in 1..Len(gvrs) |->
                    IF ok(n) THEN fetchResourcesOfKind(env, n, gvrs[n]) ELSE <<>>])

fetchResources(env, additionalResourceTypes) ==
    LET a1 == <<>> \o fetchResourcesOfKind(env, 1, GVR("", "v1", "pods"))
        a2 == a1 \o fetchResourcesOfKind(env, 2, GVR("apps", "v1", "deployments"))
        a3 == a2 \o fetchResourcesOfKind(env, 3, GVR("apps", "v1", "replicasets"))
        a4 == a3 \o fetchResourcesOfKind(env, 4, GVR("apps", "v1", "statefulsets"))
        a5 == a4 \o fetchResourcesOfKind(env, 5, GVR("", "v1", "replicationcontrollers"))
        a6 == a5 \o fetchResourcesOfKind(env, 6, GVR("apps", "v1", "daemonsets"))
        a7 == a6 \o fetchResourcesOfKind(env, 7, GVR("batch", "v1", "jobs"))
        a8 == a7 \o fetchResourcesOfKind(env, 8, GVR("batch", "v1", "cronjobs"))
        rest[k \in 0..Len(additionalResourceTypes)] ==
            IF k = 0 THEN a8
            ELSE rest[k - 1] \o
                 fetchResourcesOfKind(env, 8 + k,
                     GVR(additionalResourceTypes[k].Group,
                         additionalResourceTypes[k].Version,
                         additionalResourceTypes[k].Resource))
    IN  rest[Len(additionalResourceTypes)]

(***************************************************************************)
(* Files of the configuration directory.                                   *)
(***************************************************************************)
\* additionalResourceTypes.yaml as afero.ReadFile and yaml.Unmarshal find it.
AdditionalResourceTypesFiles ==
    { [state |-> st, types |-> <<>>] : st \in {"missing", "unreadable", "unparseable"} }
        \cup { [state |-> "ok", types |-> t] : t \in SeqUpTo(AdditionalPool, MaxAdditional) }

readAdditionalResourceTypesLenient(file) ==
    \* faulty variant: a file that cannot be read or parsed counts as an empty list
    IF file.state = "ok" THEN [types |-> file.types, err |-> Nil]
    ELSE [types |-> <<>>, err |-> Nil]

readAdditionalResourceTypes(file) ==
    IF file.state = "missing" THEN [types |-> <<>>, err |-> Nil]
    ELSE IF file.state = "unreadable" THEN [types |-> <<>>, err |-> "read error"]
    ELSE IF file.state = "unparseable" THEN [types |-> <<>>, err |-> "yaml error"]
    ELSE [types |-> file.types, err |-> Nil]

\* config.yaml: absent, or the values of its abort.* keys ("" for a key it leaves unset).
ConfigFiles ==
    { [exists |-> FALSE, configMapNamespace |-> "", configMapName |-> "", configMapField |-> ""] }
    \cup
    { [exists |-> TRUE, configMapNamespace |-> namespace, configMapName |-> name,
       configMapField |-> field] :
        namespace \in {"", "abort-ns1"}, name \in {"", "abort-n1"}, field \in {"", "abort-f1"} }

loadConfiguration(val, cfg) ==
    IF ~cfg.exists THEN val
    ELSE LET v1 == IF cfg.configMapName # ""
                   THEN [val EXCEPT !.AbortValidationConfigMapName = cfg.configMapName]
                   ELSE val
             v2 == IF cfg.configMapNamespace # ""
                   THEN [v1 EXCEPT !.AbortValidationConfigMapNamespace = cfg.configMapNamespace]
                   ELSE v1
         IN  IF cfg.configMapField # ""
             THEN [v2 EXCEPT !.AbortValidationConfigMapField = cfg.configMapField]
             ELSE v2

\* Validation{}: the zero value of the struct.
ZeroValidation ==
    [Client |-> Nil, Resources |-> <<>>,
     AbortValidationConfigMapField |-> "", AbortValidationConfigMapName |-> "",
     AbortValidationConfigMapNamespace |-> "",
     abortFunc |-> Nil, PreValidated |-> FALSE]

NewValidation(cfg) ==
    LET response == loadConfiguration(ZeroValidation, cfg)
    IN  [response EXCEPT !.PreValidated = FALSE,
                         !.AbortValidationConfigMapField = "deploying",
                         !.AbortValidationConfigMapName = "landscape-state",
                         !.AbortValidationConfigMapNamespace = "center"]

(***************************************************************************)
(* The client.  A provider is "initialised" when its dynamic client and    *)
(* clientSet are set, "uninitialised" when both are nil.                   *)
(***************************************************************************)
getClient(tried, canConnect) ==
    IF ~tried
    THEN IF canConnect
         THEN [provider |-> "initialised", err |-> Nil, tried |-> TRUE]
         ELSE [provider |-> Nil, err |-> "connect error", tried |-> TRUE]
    ELSE [provider |-> "uninitialised", err |-> Nil, tried |-> TRUE]

(***************************************************************************)
(* The abort gate.                                                         *)
(***************************************************************************)
CoordPool ==
    { [Namespace |-> "center", Name |-> "landscape-state"],
      [Namespace |-> "abort-ns1", Name |-> "abort-n1"] }
FieldPool == {"deploying", "abort-f1"}
ValuePool == {"true", "false", "TRUE"}

\* The ConfigMaps of the cluster when the gate looks: unreachable, or at most one
\* ConfigMap, whose Data is a set of <<field, value>> pairs.
ConfigMapWorlds ==
    { [reachable |-> r, exists |-> FALSE, Namespace |-> "", Name |-> "", Data |-> {}] :
        r \in BOOLEAN }
    \cup
    { [reachable |-> TRUE, exists |-> TRUE, Namespace |-> c.Namespace, Name |-> c.Name,
       Data |-> d] :
        c \in CoordPool, d \in {{}} \cup {{<<f, val>>} : f \in FieldPool, val \in ValuePool} }

\* client.ClientSet.CoreV1().ConfigMaps(namespace).Get(ctx, name, ...)
GetConfigMap(world, namespace, name) ==
    IF ~world.reachable THEN [err |-> "Unreachable", Data |-> {}]
    ELSE IF ~world.exists \/ world.Namespace # namespace \/ world.Name # name
         THEN [err |-> "NotFound", Data |-> {}]
         ELSE [err |-> Nil, Data |-> world.Data]

shouldAbortValidationNegated(val, world) ==
    \* faulty variant: the comparison with "true" is inverted
    LET configMap == GetConfigMap(world, val.AbortValidationConfigMapNamespace,
                                  val.AbortValidationConfigMapName)
        field == val.AbortValidationConfigMapField
        ok == \E p \in configMap.Data : p[1] = field
        shouldAbort == (CHOOSE p \in configMap.Data : p[1] = field)[2]
    IN  IF configMap.err # Nil
        THEN [shouldAbort |-> FALSE,
              err |-> IF configMap.err = "NotFound" THEN Nil ELSE configMap.err]
        ELSE IF ~ok THEN [shouldAbort |-> FALSE, err |-> Nil]
        ELSE [shouldAbort |-> shouldAbort # "true", err |-> Nil]

shouldAbortValidation(val, world) ==
    LET configMap == GetConfigMap(world, val.AbortValidationConfigMapNamespace,
                                  val.AbortValidationConfigMapName)
        field == val.AbortValidationConfigMapField
        ok == \E p \in configMap.Data : p[1] = field
        shouldAbort == (CHOOSE p \in configMap.Data : p[1] = field)[2]
    IN  IF configMap.err # Nil
        THEN IF configMap.err = "NotFound"
             THEN [shouldAbort |-> FALSE, err |-> Nil]
             ELSE [shouldAbort |-> FALSE, err |-> configMap.err]
        ELSE IF ~ok THEN [shouldAbort |-> FALSE, err |-> Nil]
        ELSE IF shouldAbort = "true" THEN [shouldAbort |-> TRUE, err |-> Nil]
        ELSE [shouldAbort |-> FALSE, err |-> Nil]

\* What a custom abort predicate may answer.
AbortFuncResults == { [aborted |-> a, err |-> e] : a \in BOOLEAN, e \in {Nil, "abort func error"} }

(***************************************************************************)
(* Validators and violations.                                              *)
(***************************************************************************)
NewViolation(resource, message, level, validatorName) ==
    [Resource |-> resource, Message |-> message, Level |-> level,
     ValidatorName |-> validatorName]

\* The validators a caller may hand to Validate: the fake validator, and a
\* validator of another implementer of common.Validator that returns the
\* violations it found together with an error.
ValidatorPool ==
    { [impl |-> "fake", numberOfViolations |-> n, shouldFailWithError |-> FALSE] :
        n \in {0, MaxViolations} }
    \cup { [impl |-> "fake", numberOfViolations |-> MaxViolations, shouldFailWithError |-> TRUE],
           [impl |-> "partial", numberOfViolations |-> 1, shouldFailWithError |-> TRUE] }

FoundViolations(validator, name) ==
    [i \in 1..validator.numberOfViolations |->
        NewViolation([kind |-> "Fake", name |-> i - 1, namespace |-> "fake"],
                     "Fake resource violation", 1, name)]

\* validator.Validate(resources)
ValidatorValidate(validator, resources) ==
    IF validator.impl = "fake"
    THEN IF validator.shouldFailWithError
         THEN [violations |-> <<>>, err |-> "fake error"]
         ELSE [violations |-> FoundViolations(validator, "built-in:fake"), err |-> Nil]
    ELSE [violations |-> FoundViolations(validator, "partial"), err |-> "partial error"]

\* errors.Join(cumulativeErr, err): nil is <<>>, a joined error the sequence of
\* the errors it wraps.
JoinDropping(cumulativeErr, err) ==
    \* faulty variant: only the first error is kept
    IF err = Nil \/ cumulativeErr # <<>> THEN cumulativeErr ELSE <<err>>

Join(cumulativeErr, err) ==
    IF err = Nil THEN cumulativeErr ELSE Append(cumulativeErr, err)

(***************************************************************************)
(* Validate and preValidate, statement by statement.                       *)
(***************************************************************************)
NoCall ==
    [validators |-> <<>>, i |-> 0, violations |-> <<>>, cumulativeErr |-> <<>>,
     additionalResourceTypes |-> <<>>]

NoRet == [returned |-> FALSE, violations |-> <<>>, err |-> <<>>]

NoFetchEnv == [inventory |-> [r \in ResourceNames |-> 0], failing |-> {}]
NoLookup == [err |-> Nil, ok |-> FALSE, value |-> ""]
NoAbortFuncResult == [aborted |-> FALSE, err |-> Nil]
NotReturned == [returned |-> FALSE, aborted |-> FALSE, err |-> Nil]

\* What the gate's lookup found at the coordinates of val.
Lookup(val, world) ==
    LET configMap == GetConfigMap(world, val.AbortValidationConfigMapNamespace,
                                  val.AbortValidationConfigMapName)
        ok == \E p \in configMap.Data : p[1] = val.AbortValidationConfigMapField
    IN  [err |-> configMap.err, ok |-> ok,
         value |-> IF ok
                   THEN (CHOOSE p \in configMap.Data :
                            p[1] = val.AbortValidationConfigMapField)[2]
                   ELSE ""]

\* What hist forgets when a new call starts.
ResetCall(h) ==
    [h EXCEPT !.preValidatedAtStart = FALSE,
              !.preValidate = NotReturned,
              !.getClient = "not called", !.canConnect = FALSE,
              !.typesFile = "not read",
              !.fetched = FALSE, !.fetchEnv = NoFetchEnv,
              !.gateRead = FALSE, !.lookup = NoLookup,
              !.abortFuncCalled = FALSE, !.abortFuncResult = NoAbortFuncResult,
              !.invoked = <<>>]

\* hist of a new instance.  everFetched and everGated are about the instance,
\* the other fields about its running (or last) Validate call.
NewHist ==
    [everFetched |-> FALSE, everGated |-> FALSE,
     preValidatedAtStart |-> FALSE,
     preValidate |-> NotReturned,
     getClient |-> "not called", canConnect |-> FALSE,
     typesFile |-> "not read",
     fetched |-> FALSE, fetchEnv |-> NoFetchEnv,
     gateRead |-> FALSE, lookup |-> NoLookup,
     abortFuncCalled |-> FALSE, abortFuncResult |-> NoAbortFuncResult,
     invoked |-> <<>>]

Init ==
    /\ \E cfg \in ConfigFiles : v = NewValidation(cfg)
    /\ alreadyTriedToConnect = FALSE
    /\ pc = "idle"
    /\ call = NoCall
    /\ ret = NoRet
    /\ hist = NewHist

Idle == pc = "idle"

\* The caller between two calls.
BackToCaller ==
    /\ pc' = "idle"
    /\ call' = NoCall
    /\ ret' = NoRet

\* Validate has returned: the caller takes the result and goes on.
TakeResult ==
    /\ pc = "done"
    /\ BackToCaller
    /\ hist' = ResetCall(hist)
    /\ UNCHANGED <<v, alreadyTriedToConnect>>

SetClient ==
    /\ Idle
    /\ v' = [v EXCEPT !.Client = "initialised"]
    /\ BackToCaller
    /\ hist' = ResetCall(hist)
    /\ UNCHANGED alreadyTriedToConnect

SetAbortFunc ==
    /\ Idle
    /\ \E abortFunc \in {Nil, "custom"} : v' = [v EXCEPT !.abortFunc = abortFunc]
    /\ BackToCaller
    /\ hist' = ResetCall(hist)
    /\ UNCHANGED alreadyTriedToConnect

\* The caller creates another Validation instance in the same process and goes
\* on with it.
Construct ==
    /\ Idle
    /\ \E cfg \in ConfigFiles : v' = NewValidation(cfg)
    /\ BackToCaller
    /\ hist' = NewHist
    /\ UNCHANGED alreadyTriedToConnect

CallValidate ==
    /\ Idle
    /\ \E validators \in SeqUpTo(ValidatorPool, MaxValidators) :
          call' = [NoCall EXCEPT !.validators = validators, !.i = 1]
    /\ pc' = "preValidate"
    /\ ret' = NoRet
    /\ hist' = [ResetCall(hist) EXCEPT !.preValidatedAtStart = v.PreValidated]
    /\ UNCHANGED <<v, alreadyTriedToConnect>>

\* Validate after preValidate has returned (aborted, err).
AfterPreValidate(violations, cumulativeErr, aborted, err) ==
    IF err # Nil
    THEN [pc |-> "done",
          ret |-> [returned |-> TRUE, violations |-> violations,
                   err |-> Join(cumulativeErr, err)]]
    ELSE IF aborted
    THEN [pc |-> "done", ret |-> [returned |-> TRUE, violations |-> violations, err |-> <<>>]]
    ELSE [pc |-> "loop", ret |-> NoRet]

\* preValidate returns (aborted, err) to Validate; h is hist as the step leaves it.
PreValidateReturns(aborted, err, h) ==
    LET next == AfterPreValidate(call.violations, call.cumulativeErr, aborted, err)
    IN  /\ pc' = next.pc
        /\ ret' = next.ret
        /\ hist' = [h EXCEPT !.preValidate =
                       [returned |-> TRUE, aborted |-> aborted, err |-> err]]

\* "if !v.PreValidated": whether preValidate does anything.
skipsPreValidationNever(val) == FALSE   \* faulty variant: every call prevalidates again

skipsPreValidation(val) == val.PreValidated

\* preValidate: "if !v.PreValidated", and the client.
PreValidateStart ==
    /\ pc = "preValidate"
    /\ \/ /\ skipsPreValidation(v)
          /\ PreValidateReturns(FALSE, Nil, hist)
          /\ UNCHANGED <<v, alreadyTriedToConnect>>
       \/ /\ ~skipsPreValidation(v)
          /\ v.Client = Nil
          /\ \E canConnect \in BOOLEAN :
                LET r == getClient(alreadyTriedToConnect, canConnect)
                    h == [hist EXCEPT !.getClient =
                                         IF r.err # Nil THEN "error" ELSE r.provider,
                                      !.canConnect = canConnect]
                IN  /\ alreadyTriedToConnect' = r.tried
                    /\ v' = [v EXCEPT !.Client = r.provider]
                    /\ IF r.err # Nil
                       THEN PreValidateReturns(FALSE, r.err, h)
                       ELSE pc' = "readTypes" /\ hist' = h /\ UNCHANGED ret
       \/ /\ ~skipsPreValidation(v)
          /\ v.Client # Nil
          /\ pc' = "readTypes"
          /\ UNCHANGED <<v, alreadyTriedToConnect, hist, ret>>
    /\ UNCHANGED call

\* preValidate: readAdditionalResourceTypes(configDir).
ReadTypes ==
    /\ pc = "readTypes"
    /\ \E file \in AdditionalResourceTypesFiles :
          LET r == readAdditionalResourceTypes(file)
              h == [hist EXCEPT !.typesFile = file.state]
          IN  IF r.err # Nil
              THEN PreValidateReturns(FALSE, r.err, h) /\ UNCHANGED call
              ELSE /\ call' = [call EXCEPT !.additionalResourceTypes = r.types]
                   /\ pc' = "fetch"
                   /\ hist' = h
                   /\ UNCHANGED ret
    /\ UNCHANGED <<v, alreadyTriedToConnect>>

\* preValidate: v.Resources = fetchResources(...), in one of the environments envs.
\* On a provider whose dynamic client is nil the first list call dereferences
\* nil and the process panics.
Fetch(envs) ==
    /\ pc = "fetch"
    /\ IF v.Client = "uninitialised"
       THEN /\ pc' = "panic"
            /\ UNCHANGED <<v, hist>>
       ELSE \E env \in envs :
              /\ v' = [v EXCEPT !.Resources = fetchResources(env, call.additionalResourceTypes)]
              /\ hist' = [hist EXCEPT !.everFetched = TRUE, !.fetched = TRUE,
                                      !.fetchEnv = env]
              /\ pc' = "abort"
    /\ UNCHANGED <<alreadyTriedToConnect, call, ret>>

NumberOfListCalls == Len(DefaultResourceTypes) + Len(call.additionalResourceTypes)

FetchSome == Fetch(RunFetchEnvs(NumberOfListCalls))

\* "if v.abortFunc == nil": which of the two gates decides.
usesConfigMapAlways(val) == TRUE   \* faulty variant: the ConfigMap is always consulted

usesConfigMap(val) == val.abortFunc = Nil

\* preValidate with the default gate: what it returns, and whether it sets PreValidated.
defaultGate(val, world) ==
    LET r == shouldAbortValidation(val, world)
    IN  IF r.err # Nil THEN [aborted |-> TRUE, err |-> r.err, PreValidated |-> FALSE]
        ELSE IF r.shouldAbort THEN [aborted |-> TRUE, err |-> Nil, PreValidated |-> FALSE]
        ELSE [aborted |-> FALSE, err |-> Nil, PreValidated |-> TRUE]

\* preValidate with a custom predicate: "return v.abortFunc()".
customGate(result) ==
    [aborted |-> result.aborted, err |-> result.err, PreValidated |-> FALSE]

AbortGate ==
    /\ pc = "abort"
    /\ \/ /\ usesConfigMap(v)
          /\ \E world \in ConfigMapWorlds :
                LET g == defaultGate(v, world)
                IN  /\ v' = [v EXCEPT !.PreValidated = g.PreValidated]
                    /\ PreValidateReturns(g.aborted, g.err,
                          [hist EXCEPT !.everGated = TRUE, !.gateRead = TRUE,
                                       !.lookup = Lookup(v, world)])
       \/ /\ ~usesConfigMap(v)
          /\ \E result \in AbortFuncResults :
                LET g == customGate(result)
                IN  /\ v' = [v EXCEPT !.PreValidated = g.PreValidated]
                    /\ PreValidateReturns(g.aborted, g.err,
                          [hist EXCEPT !.everGated = TRUE, !.abortFuncCalled = TRUE,
                                       !.abortFuncResult = result])
    /\ UNCHANGED <<alreadyTriedToConnect, call>>

\* "for _, validator := range validators": the index of the next iteration.
loopNextBreakOnError(i, n, err) ==
    \* faulty variant: the loop ends at the first validator that returns an error
    IF err # Nil THEN n + 1 ELSE i + 1

loopNext(i, n, err) == i + 1

\* "if len(newViolations) > 0 { violations = append(violations, newViolations...) }"
accumulateUnlessError(violations, newViolations, err) ==
    \* faulty variant: the violations of a validator that returned an error are dropped
    IF err = Nil /\ Len(newViolations) # 0 THEN violations \o newViolations
    ELSE violations

accumulate(violations, newViolations, err) ==
    IF Len(newViolations) > 0 THEN violations \o newViolations ELSE violations

RunValidator ==
    /\ pc = "loop"
    /\ call.i <= Len(call.validators)
    /\ LET validator == call.validators[call.i]
           r == ValidatorValidate(validator, v.Resources)
       IN  /\ call' = [call EXCEPT
                         !.cumulativeErr = Join(@, r.err),
                         !.violations = accumulate(@, r.violations, r.err),
                         !.i = loopNext(call.i, Len(call.validators), r.err)]
           /\ hist' = [hist EXCEPT !.invoked =
                          Append(@, [i |-> call.i, resources |-> v.Resources,
                                     violations |-> r.violations, err |-> r.err])]
    /\ UNCHANGED <<v, alreadyTriedToConnect, pc, ret>>

\* "return violations, cumulativeErr"
ReturnValidate ==
    /\ pc = "loop"
    /\ call.i > Len(call.validators)
    /\ ret' = [returned |-> TRUE, violations |-> call.violations, err |-> call.cumulativeErr]
    /\ pc' = "done"
    /\ UNCHANGED <<v, alreadyTriedToConnect, call, hist>>

Next ==
    \/ TakeResult
    \/ SetClient
    \/ SetAbortFunc
    \/ Construct
    \/ CallValidate
    \/ PreValidateStart
    \/ ReadTypes
    \/ FetchSome
    \/ AbortGate
    \/ RunValidator
    \/ ReturnValidate

Spec == Init /\ [][Next]_vars

\* The fetch alone, in every environment: Validate stands at "v.Resources =
\* fetchResources(...)" with a client and the file's additional kinds read.
InitFetch ==
    /\ v = [NewValidation([exists |-> FALSE, configMapNamespace |-> "",
                           configMapName |-> "", configMapField |-> ""])
             EXCEPT !.Client = "initialised"]
    /\ alreadyTriedToConnect = FALSE
    /\ pc = "fetch"
    /\ \E types \in SeqUpTo(AdditionalPool, MaxAdditional) :
          call = [NoCall EXCEPT !.i = 1, !.additionalResourceTypes = types]
    /\ ret = NoRet
    /\ hist = NewHist

FetchAny == Fetch(FetchEnvs(NumberOfListCalls))

SpecFetch == InitFetch /\ [][FetchAny]_vars

(***************************************************************************)
(* Properties of Validate.                                                 *)
(***************************************************************************)
Returned == pc = "done" /\ ret.returned

\* preValidate returned (false, nil): the call goes on to the validators.
RanValidators ==
    /\ hist.preValidate.returned
    /\ hist.preValidate.err = Nil
    /\ ~hist.preValidate.aborted

IsError(e) == e # Nil

\* The errors the invoked validators returned, in the order of the invocations.
ValidatorErrors ==
    SelectSeq([k \in 1..Len(hist.invoked) |-> hist.invoked[k].err], IsError)

\* The violations the invoked validators returned, one after the other.
ReturnedViolations == Flatten([k \in 1..Len(hist.invoked) |-> hist.invoked[k].violations])

\* The same, without those of the validators that returned an error.
ViolationsOfSucceeded ==
    Flatten([k \in 1..Len(hist.invoked) |->
                IF hist.invoked[k].err = Nil THEN hist.invoked[k].violations ELSE <<>>])

\* C1: in a run whose prevalidation succeeds and is not aborted, Validate
\* invokes every validator of the list exactly once, in list order, each on the
\* snapshot of the instance; an error of one validator keeps no later one from
\* being invoked.
C1_EveryValidatorInvokedInOrder ==
    (pc \in {"loop", "done"} /\ RanValidators) =>
        /\ Len(hist.invoked) = call.i - 1
        /\ \A k \in 1..Len(hist.invoked) :
              /\ hist.invoked[k].i = k
              /\ hist.invoked[k].resources = v.Resources
        /\ (pc = "done" => Len(hist.invoked) = Len(call.validators))

\* A run of a full list whose first validator returned an error, and whose
\* last validator was invoked all the same.
C1_Witness ==
    /\ Returned /\ RanValidators
    /\ Len(call.validators) = MaxValidators
    /\ Len(hist.invoked) = MaxValidators
    /\ hist.invoked[1].err # Nil

\* C2: the error Validate returns is nil exactly when preValidate reported no
\* error and no invoked validator returned one; when validators ran, the
\* combined error holds every error they returned, in order.
C2_CombinedError ==
    Returned =>
        /\ (ret.err = <<>>) <=>
              (/\ hist.preValidate.err = Nil
               /\ \A k \in 1..Len(hist.invoked) : hist.invoked[k].err = Nil)
        /\ (RanValidators => ret.err = ValidatorErrors)
        /\ (hist.preValidate.err # Nil => ret.err = <<hist.preValidate.err>>)

\* Two validators of one run returned an error each, and both are in the result.
C2_Witness ==
    /\ Returned /\ RanValidators
    /\ Len(hist.invoked) >= 2
    /\ hist.invoked[1].err # Nil
    /\ hist.invoked[2].err # Nil
    /\ hist.invoked[1].err # hist.invoked[2].err
    /\ ret.err = <<hist.invoked[1].err, hist.invoked[2].err>>

\* C3: a validator that returns a non-nil error contributes nothing: the
\* violations Validate returns are those of the validators that returned no error.
C3_FailedValidatorContributesNothing ==
    Returned => ret.violations = ViolationsOfSucceeded

\* C4: in a non-aborted run the violations Validate returns are the concatenation,
\* in list order, of the violation sequences the validators returned; with an
\* empty list the result is no violation and a nil error.
C4_ViolationsAreConcatenation ==
    (Returned /\ RanValidators) =>
        /\ ret.violations = ReturnedViolations
        /\ (call.validators = <<>> => ret.violations = <<>> /\ ret.err = <<>>)

\* Two validators of one run returned violations, one of them with an error,
\* and the result holds those of both.
C4_Witness ==
    /\ Returned /\ RanValidators
    /\ Len(hist.invoked) = 2
    /\ Len(hist.invoked[1].violations) = MaxViolations
    /\ hist.invoked[2].err # Nil
    /\ Len(hist.invoked[2].violations) = 1
    /\ Len(ret.violations) = MaxViolations + 1

\* The default gate looked the flag up and found the field with the value "true".
FlagIsTrue ==
    /\ hist.gateRead
    /\ hist.lookup.err = Nil
    /\ hist.lookup.ok
    /\ hist.lookup.value = "true"

\* C5: with no custom abort predicate, when the gate finds the configured field
\* of the configured ConfigMap to be "true", Validate returns no violation and a
\* nil error and invokes no validator.
C5_TrueFlagAborts ==
    FlagIsTrue =>
        /\ v.abortFunc = Nil
        /\ Returned
        /\ ret.violations = <<>>
        /\ ret.err = <<>>
        /\ hist.invoked = <<>>

\* The flag was "true" in a call that was given validators.
C5_Witness ==
    /\ FlagIsTrue
    /\ Returned
    /\ Len(call.validators) = MaxValidators

\* C6: the default gate is fail-open: when the lookup fails (not found or
\* unreachable), the field is absent or its value is not "true", the run goes on
\* to invoke the validators and the gate adds no error to the result.
C6_GateFailsOpen ==
    (hist.gateRead /\ ~FlagIsTrue) =>
        /\ RanValidators
        /\ pc \in {"loop", "done"}
        /\ (pc = "done" => /\ Len(hist.invoked) = Len(call.validators)
                           /\ ret.err = ValidatorErrors)

\* C7: with a custom abort predicate set, the abort decision of a run is the
\* predicate's answer, and the ConfigMap flag is not read.
C7_CustomPredicateDecides ==
    /\ hist.gateRead => v.abortFunc = Nil
    /\ (v.abortFunc # Nil /\ hist.fetched /\ pc # "abort") => hist.abortFuncCalled
    /\ hist.abortFuncCalled =>
          /\ ~hist.gateRead
          /\ hist.preValidate.returned
          /\ hist.preValidate.aborted = hist.abortFuncResult.aborted
          /\ hist.preValidate.err = hist.abortFuncResult.err
    /\ (Returned /\ hist.abortFuncCalled /\ hist.abortFuncResult.err = Nil) =>
          IF hist.abortFuncResult.aborted
          THEN hist.invoked = <<>> /\ ret.violations = <<>> /\ ret.err = <<>>
          ELSE Len(hist.invoked) = Len(call.validators)

\* The predicate said abort, and the call that was given validators invoked none.
C7_Witness ==
    /\ Returned
    /\ hist.abortFuncCalled
    /\ hist.abortFuncResult.aborted
    /\ hist.abortFuncResult.err = Nil
    /\ Len(call.validators) = MaxValidators
    /\ hist.invoked = <<>>

\* The steps in which the resources are fetched and the abort gate is evaluated.
FetchStep == pc = "fetch" /\ pc' = "abort"
GateStep == pc = "abort" /\ pc' # "abort"

\* C8: on one instance the resource fetch and the abort-gate evaluation are each
\* performed at most once, whatever the gate and whatever the first call returned.
C8_AtMostOncePerInstance ==
    [][/\ hist.everFetched => ~FetchStep
       /\ hist.everGated => ~GateStep]_vars

\* C8, amended: once a call has set PreValidated (the default gate let it pass),
\* no later call on the instance fetches or evaluates the gate, and the snapshot
\* stays the one that call fetched.
C8_PreValidatedNeverAgain ==
    [][(v.PreValidated /\ ~Construct) =>
          /\ v'.PreValidated
          /\ v'.Resources = v.Resources
          /\ ~FetchStep
          /\ ~GateStep
          /\ pc' \notin {"readTypes", "fetch", "abort"}]_vars

\* A later call on a prevalidated instance ran its validators without fetching.
C8_Witness ==
    /\ Returned
    /\ hist.preValidatedAtStart
    /\ hist.everFetched /\ ~hist.fetched
    /\ hist.everGated /\ ~hist.gateRead
    /\ Len(hist.invoked) = MaxValidators

\* C9: when no client was supplied and none can be created, the run fails before
\* any resource is fetched or validator invoked, and the failure is the error
\* Validate returns, never a panic.
C9_ClientFailureIsReturnedError ==
    (hist.getClient # "not called" /\ ~hist.canConnect) =>
        /\ pc # "panic"
        /\ ~hist.fetched
        /\ hist.invoked = <<>>
        /\ (pc = "done" => ret.err # <<>>)

\* The kinds fetchResources is to list, by name and in the fixed order.
FixedOrder ==
    << "pods", "deployments", "replicasets", "statefulsets",
       "replicationcontrollers", "daemonsets", "jobs", "cronjobs" >>

ListedNames(additionalResourceTypes) ==
    FixedOrder \o [k \in 1..Len(additionalResourceTypes) |->
                      additionalResourceTypes[k].Resource]

\* The items of the kinds whose list call succeeded, kind after kind.
ExpectedSnapshot(env, additionalResourceTypes) ==
    LET names == ListedNames(additionalResourceTypes)
    IN  Flatten([n \in 1..Len(names) |->
                    IF n \in env.failing THEN <<>>
                    ELSE [i \in 1..env.inventory[names[n]] |-> Item(names[n], i)]])

\* C10: whichever list calls fail, the snapshot is the concatenation, in the fixed
\* order and then the additional kinds in file order, of the items of the kinds
\* that listed; a failing kind adds nothing and the run goes on to the gate.
C10_SnapshotOfListedKinds ==
    hist.fetched =>
        /\ pc = "abort"
        /\ v.Resources = ExpectedSnapshot(hist.fetchEnv, call.additionalResourceTypes)

\* A fetch with two different additional kinds in which a default kind and the
\* first additional kind failed, and kinds after them are in the snapshot.
C10_Witness ==
    /\ hist.fetched
    /\ Len(call.additionalResourceTypes) = 2
    /\ call.additionalResourceTypes[1] # call.additionalResourceTypes[2]
    /\ hist.fetchEnv.failing = {2, 9}
    /\ hist.fetchEnv.inventory = MixedInventory
    /\ Len(v.Resources) > MaxItemsPerKind

(***************************************************************************)
(* The built-in validators (allowed-pods, readiness, freshness,            *)
(* privileged-pods).  One Validate call of one validator instance is       *)
(* followed at a time: v is the validator instance (the receiver), call    *)
(* the locals of its Validate, ret what it returned, and hist the          *)
(* environment of the call: the list file in the configuration directory   *)
(* and the package variables ExemptPodLabelName / ExemptPodLabelValue.     *)
(***************************************************************************)
MaxStack == 4       \* frames of isInAllowlist the runtime's stack holds
MaxEntries == 2     \* entries of readinesslist.yaml

KIND_POD == "Pod"
KIND_REPLICA_SET == "ReplicaSet"
KIND_DEPLOYMENT == "Deployment"

\* status.conditions and status.ready: whether the field is there (found),
\* whether it has the type the accessor expects (ok), and its value.
NoConditions == [found |-> FALSE, ok |-> TRUE, items |-> <<>>]
NoReady == [found |-> FALSE, ok |-> TRUE, value |-> FALSE]
NoStatus == [conditions |-> NoConditions, ready |-> NoReady]

\* metadata.creationTimestamp: the zero time, or a time age minutes ago.
NoCreationTimestamp == [isZero |-> TRUE, age |-> 0]
CreatedAgo(minutes) == [isZero |-> FALSE, age |-> minutes]
NoContainers == [init |-> <<>>, regular |-> <<>>, ephemeral |-> <<>>]

\* An unstructured.Unstructured with the fields the validators read;
\* convertible tells whether the object converts to a v1.Pod.
Obj(kind, name, namespace) ==
    [kind |-> kind, name |-> name, namespace |-> namespace,
     labels |-> {}, ownerReferences |-> <<>>,
     creationTimestamp |-> NoCreationTimestamp,
     status |-> NoStatus, containers |-> NoContainers, convertible |-> TRUE]

\* metav1.OwnerReference
OwnerReference(kind, name) == [Kind |-> kind, Name |-> name]

\* AllowlistItem / ReadinesslistItem
ListItem(kind, name, namespace) == [Kind |-> kind, Name |-> name, Namespace |-> namespace]

\* common.IndexFunc(s, f), for f given as the set of the elements it accepts:
\* the first index whose element is accepted, -1 if there is none.
IndexFunc(s, accepted) ==
    IF \E i \in 1..Len(s) : s[i] \in accepted
    THEN CHOOSE i \in 1..Len(s) :
            /\ s[i] \in accepted
            /\ \A j \in 1..(i - 1) : s[j] \notin accepted
    ELSE -1

SameIdentity(a, b) == a.kind = b.kind /\ a.name = b.name /\ a.namespace = b.namespace

Elements(s) == {s[i] : i \in 1..Len(s)}

\* common.GetOwnerReferences
GetOwnerReferences(resources, item) ==
    LET idx == IndexFunc(resources, {p \in Elements(resources) : SameIdentity(item, p)})
    IN  IF idx > -1
        THEN [ownerReferences |-> resources[idx].ownerReferences, err |-> Nil]
        ELSE [ownerReferences |-> <<>>, err |-> "couldn't find owner references"]

IsPod(s) == s.kind = KIND_POD

\* common.GetPods
GetPods(resources) == SelectSeq(resources, IsPod)

\* common.IsExempt, with the package variables passed in env: the requirement
\* "key = value" matches a label set that has the key with that value.
IsExemptNever(env, resource) == FALSE   \* faulty variant: no resource is exempt

IsExempt(env, resource) ==
    \E l \in resource.labels :
        l[1] = env.ExemptPodLabelName /\ l[2] = env.ExemptPodLabelValue

\* The states of a list file (allowlist.yaml, readinesslist.yaml).
ListFiles(lists) ==
    {[state |-> "missing", items |-> <<>>], [state |-> "unparseable", items |-> <<>>]}
        \cup {[state |-> "ok", items |-> l] : l \in lists}

\* The list file a validator finds when it reads it: Validate reads the file
\* of the configuration directory as it is at the time of the call.
listFileAtInstantiation(env) ==
    \* faulty variant: the file as it was when the validator was created
    env.atInstantiation

listFile(env) == env.file

\* readAllowlist / readReadinesslist: afero.ReadFile, then yaml.Unmarshal.
readListAlwaysSucceeds(file) ==
    \* faulty variant: a file that cannot be loaded is an empty list
    [list |-> file.items, err |-> Nil]

readList(file) ==
    IF file.state = "missing" THEN [list |-> <<>>, err |-> "read error"]
    ELSE IF file.state = "unparseable" THEN [list |-> <<>>, err |-> "yaml error"]
    ELSE [list |-> file.items, err |-> Nil]

\* allowListToUnstructured
allowListToUnstructured(allowList) ==
    [i \in 1..Len(allowList) |->
        Obj(allowList[i].Kind, allowList[i].Name, allowList[i].Namespace)]

(***************************************************************************)
(* A Validate call of a built-in validator.                                *)
(***************************************************************************)
NoLocals ==
    [resources |-> <<>>, pods |-> <<>>, i |-> 0, violations |-> <<>>,
     list |-> <<>>, stack |-> <<>>, found |-> "none", err |-> Nil]

\* The validator returns (violations, err).
ValidatorReturns(violations, err) ==
    /\ pc' = "returned"
    /\ ret' = [returned |-> TRUE, violations |-> violations, err |-> err]

(***************************************************************************)
(* allowed-pods.  isInAllowlist is recursive: call.stack holds its frames, *)
(* the innermost last, and call.found the value a frame has just returned  *)
(* to its caller ("none" while a frame is running).  A frame is            *)
(* [item, entered, ownerReferences, k]: entered tells whether the frame    *)
(* has got past the allowlist and looked its owner references up, k is the *)
(* position of its range loop.                                             *)
(***************************************************************************)
Frame(item) == [item |-> item, entered |-> FALSE, ownerReferences |-> <<>>, k |-> 0]

InAllowlist(allowlist, item) ==
    IndexFunc(allowlist, {a \in Elements(allowlist) : SameIdentity(item, a)}) > -1

\* The candidate isInAllowlist recurses on for the owner reference s of item.
ownerWithoutNamespace(s, item) ==
    \* faulty variant: the candidate does not inherit the namespace
    Obj(s.Kind, s.Name, "")

owner(s, item) == Obj(s.Kind, s.Name, item.namespace)

\* Whether isInAllowlist may recurse on candidate: the code has no guard.
mayRecurseUnlessVisited(stack, candidate) ==
    \* faulty variant: a candidate already on the stack is not entered again
    \A n \in 1..Len(stack) : ~SameIdentity(stack[n].item, candidate)

mayRecurse(stack, candidate) == TRUE

\* v.Validate(ctx, resources) up to the range loop over the pods.
AllowedPodsStart ==
    /\ pc = "called"
    /\ v.impl = "allowed-pods"
    /\ LET rawAllowlist == readList(listFile(hist))
       IN  IF rawAllowlist.err # Nil
           THEN /\ ValidatorReturns(<<>>, rawAllowlist.err)
                /\ call' = [call EXCEPT !.pods = GetPods(call.resources)]
           ELSE /\ pc' = "pods"
                /\ call' = [call EXCEPT !.pods = GetPods(call.resources), !.i = 1,
                                        !.list = allowListToUnstructured(rawAllowlist.list)]
                /\ UNCHANGED ret
    /\ UNCHANGED <<v, alreadyTriedToConnect, hist>>

\* The head of the range loop: the next pod, or the return after the last one.
AllowedPodsNextPod ==
    /\ pc = "pods"
    /\ v.impl = "allowed-pods"
    /\ IF call.i > Len(call.pods)
       THEN /\ ValidatorReturns(call.violations, Nil)
            /\ UNCHANGED call
       ELSE IF IsExempt(hist, call.pods[call.i])
       THEN /\ call' = [call EXCEPT !.i = call.i + 1]
            /\ UNCHANGED <<pc, ret>>
       ELSE /\ pc' = "walk"
            /\ call' = [call EXCEPT !.stack = <<Frame(call.pods[call.i])>>,
                                        !.found = "none"]
            /\ UNCHANGED ret
    /\ UNCHANGED <<v, alreadyTriedToConnect, hist>>

\* The innermost frame returns found to its caller.
FrameReturns(found) ==
    call' = [call EXCEPT !.stack = SubSeq(call.stack, 1, Len(call.stack) - 1),
                         !.found = IF found THEN "yes" ELSE "no"]

\* One step of isInAllowlist.
AllowedPodsWalk ==
    /\ pc = "walk"
    /\ call.stack # <<>>
    /\ LET d == Len(call.stack)
           top == call.stack[d]
       IN  IF call.found # "none"
           THEN \* the recursive call of the loop body has returned
                IF call.found = "yes"
                THEN FrameReturns(TRUE) /\ UNCHANGED pc
                ELSE /\ call' = [call EXCEPT !.stack[d].k = top.k + 1, !.found = "none"]
                     /\ UNCHANGED pc
           ELSE IF ~top.entered
           THEN \* function entry: the allowlist, then the owner references
                IF InAllowlist(call.list, top.item)
                THEN FrameReturns(TRUE) /\ UNCHANGED pc
                ELSE LET refs == GetOwnerReferences(call.resources, top.item)
                     IN  IF refs.err # Nil
                         THEN FrameReturns(FALSE) /\ UNCHANGED pc
                         ELSE /\ call' = [call EXCEPT
                                            !.stack[d].entered = TRUE,
                                            !.stack[d].ownerReferences = refs.ownerReferences,
                                            !.stack[d].k = 1]
                              /\ UNCHANGED pc
           ELSE IF top.k > Len(top.ownerReferences)
           THEN FrameReturns(FALSE) /\ UNCHANGED pc
           ELSE LET candidate == owner(top.ownerReferences[top.k], top.item)
                IN  IF ~mayRecurse(call.stack, candidate)
                    THEN /\ call' = [call EXCEPT !.stack[d].k = top.k + 1]
                         /\ UNCHANGED pc
                    ELSE IF d = MaxStack
                    THEN \* the recursion has outgrown the stack: the runtime
                         \* ends the process, Validate never returns
                         pc' = "overflow" /\ UNCHANGED call
                    ELSE /\ call' = [call EXCEPT !.stack = Append(call.stack, Frame(candidate))]
                         /\ UNCHANGED pc
    /\ UNCHANGED <<v, alreadyTriedToConnect, ret, hist>>

\* What Validate does with the answer of isInAllowlist for a pod.
recordsViolationAlways(found) == TRUE    \* faulty variant: every walked pod is reported

recordsViolation(found) == ~found

\* isInAllowlist has returned to Validate.
AllowedPodsWalked ==
    /\ pc = "walk"
    /\ call.stack = <<>>
    /\ call.found # "none"
    /\ LET pod == call.pods[call.i]
       IN  IF recordsViolation(call.found = "yes")
           THEN /\ call' = [call EXCEPT
                              !.violations = Append(call.violations,
                                  NewViolation(pod, "NOT found in allowlist", 1,
                                               "built-in:allowed-pods")),
                              !.i = call.i + 1, !.found = "none"]
                /\ UNCHANGED v
           ELSE /\ v' = [v EXCEPT !.allowedPods = Append(v.allowedPods, pod)]
                /\ call' = [call EXCEPT !.i = call.i + 1, !.found = "none"]
    /\ pc' = "pods"
    /\ UNCHANGED <<alreadyTriedToConnect, ret, hist>>

(***************************************************************************)
(* readiness.  Validate has the named results (violations, err):           *)
(* call.violations and call.err.                                           *)
(***************************************************************************)
\* getReadinesslistItemResource: the first resource of the snapshot with the
\* identity of the entry, or a resource made up from the entry.
getReadinesslistItemResource(resources, readinesslistItem) ==
    LET wanted == Obj(readinesslistItem.Kind, readinesslistItem.Name,
                      readinesslistItem.Namespace)
        idx == IndexFunc(resources,
                         {r \in Elements(resources) : SameIdentity(wanted, r)})
    IN  IF idx > -1
        THEN [resource |-> resources[idx], found |-> TRUE]
        ELSE [resource |-> wanted, found |-> FALSE]

IsReadyTrue(condition) == condition.type = "Ready" /\ condition.status = "True"

\* isResourceReady
isResourceReady(resource) ==
    LET conditions == resource.status.conditions
        ready == resource.status.ready
    IN  IF ~conditions.ok THEN [isReady |-> FALSE, err |-> "conditions: type error"]
        ELSE IF conditions.found
        THEN [isReady |-> \E n \in 1..Len(conditions.items) : IsReadyTrue(conditions.items[n]),
              err |-> Nil]
        ELSE IF ~ready.ok THEN [isReady |-> FALSE, err |-> "ready: type error"]
        ELSE IF ready.found THEN [isReady |-> ready.value, err |-> Nil]
        ELSE [isReady |-> FALSE, err |-> Nil]

\* Whether Validate reports an entry that has no resource in the snapshot.
reportsMissingAlways(ignoreMissingResources) == TRUE   \* faulty variant: the option is ignored

reportsMissing(ignoreMissingResources) == ~ignoreMissingResources

\* Whether Validate evaluates a resource it found for an entry: the code
\* asks nothing of its labels.
evaluatesUnlessExempt(env, resource) ==
    \* faulty variant: a resource with the exemption label is passed over
    ~IsExempt(env, resource)

evaluates(env, resource) == TRUE

ReadinessViolation(resource) ==
    NewViolation(resource, "readiness violation", 1, "built-in:readiness")

\* v.Validate(resources) up to the range loop over the list.
ReadinessStart ==
    /\ pc = "called"
    /\ v.impl = "readiness"
    /\ LET readinesslist == readList(listFile(hist))
       IN  IF readinesslist.err # Nil
           THEN /\ ValidatorReturns(<<>>, readinesslist.err)
                /\ call' = [call EXCEPT !.err = readinesslist.err]
           ELSE /\ pc' = "entries"
                /\ call' = [call EXCEPT !.list = readinesslist.list, !.i = 1]
                /\ UNCHANGED ret
    /\ UNCHANGED <<v, alreadyTriedToConnect, hist>>

\* One pass of the range loop, or the return after the last entry.
ReadinessNextEntry ==
    /\ pc = "entries"
    /\ v.impl = "readiness"
    /\ IF call.i > Len(call.list)
       THEN /\ ValidatorReturns(call.violations, call.err)
            /\ UNCHANGED call
       ELSE LET item == getReadinesslistItemResource(call.resources, call.list[call.i])
                answer == isResourceReady(item.resource)
            IN  /\ IF ~item.found
                   THEN IF reportsMissing(v.ignoreMissingResources)
                        THEN call' = [call EXCEPT
                                        !.violations = Append(call.violations,
                                                              ReadinessViolation(item.resource)),
                                        !.i = call.i + 1]
                        ELSE call' = [call EXCEPT !.i = call.i + 1]
                   ELSE IF ~evaluates(hist, item.resource)
                   THEN call' = [call EXCEPT !.i = call.i + 1]
                   ELSE IF answer.err # Nil
                   THEN call' = [call EXCEPT !.err = answer.err, !.i = call.i + 1]
                   ELSE IF answer.isReady
                   THEN call' = [call EXCEPT !.err = Nil, !.i = call.i + 1]
                   ELSE call' = [call EXCEPT
                                   !.err = Nil,
                                   !.violations = Append(call.violations,
                                                         ReadinessViolation(item.resource)),
                                   !.i = call.i + 1]
                /\ UNCHANGED <<pc, ret>>
    /\ UNCHANGED <<v, alreadyTriedToConnect, hist>>

(***************************************************************************)
(* freshness.                                                              *)
(***************************************************************************)
MinutesPerHour == 60

\* isPodStale: diff.Hours() > float64(freshnessThresholdInHours)
isPodStaleAtThreshold(pod, freshnessThresholdInHours) ==
    \* faulty variant: a pod as old as the threshold is stale
    /\ ~pod.creationTimestamp.isZero
    /\ pod.creationTimestamp.age >= freshnessThresholdInHours * MinutesPerHour

isPodStale(pod, freshnessThresholdInHours) ==
    IF pod.creationTimestamp.isZero THEN FALSE
    ELSE pod.creationTimestamp.age > freshnessThresholdInHours * MinutesPerHour

\* FreshnessValidator.Validate
FreshnessValidate(env, val, resources) ==
    LET pods == GetPods(resources)
        stale == SelectSeq(pods, LAMBDA p :
                    ~IsExempt(env, p) /\ isPodStale(p, val.freshnessThresholdInHours))
    IN  [violations |-> [n \in 1..Len(stale) |->
                            NewViolation(stale[n], "Pod is stale", 1, "built-in:freshness")],
         err |-> Nil]

FreshnessCall ==
    /\ pc = "called"
    /\ v.impl = "freshness"
    /\ LET result == FreshnessValidate(hist, v, call.resources)
       IN  ValidatorReturns(result.violations, result.err)
    /\ call' = [call EXCEPT !.pods = GetPods(call.resources)]
    /\ UNCHANGED <<v, alreadyTriedToConnect, hist>>

(***************************************************************************)
(* privileged-pods.  A container is its *v1.SecurityContext: isNil, or the *)
(* fields the check reads ("nil" for a nil pointer).                       *)
(***************************************************************************)
capabilityCapSysAdmin == "CAP_SYS_ADMIN"
excessiveCapabilities == {capabilityCapSysAdmin}

NilSecurityContext ==
    [isNil |-> TRUE, ProcMount |-> "nil", AllowPrivilegeEscalation |-> "nil",
     Privileged |-> "nil", Add |-> <<>>]

EmptySecurityContext == [NilSecurityContext EXCEPT !.isNil = FALSE]

\* foundSecurityContextPrivilegedVulnerability: the reason, "" if there is none.
foundOnlyPrivileged(securityContext) ==
    \* faulty variant: only the privileged flag is looked at
    IF ~securityContext.isNil /\ securityContext.Privileged = "true"
    THEN "Privileged" ELSE ""

foundSecurityContextPrivilegedVulnerability(securityContext) ==
    IF securityContext.isNil THEN ""
    ELSE IF securityContext.ProcMount = "Unmasked" THEN "ProcMount"
    ELSE IF securityContext.AllowPrivilegeEscalation = "true" THEN "AllowPrivilegeEscalation"
    ELSE IF securityContext.Privileged = "true" THEN "Privileged"
    ELSE IF \E n \in 1..Len(securityContext.Add) :
                securityContext.Add[n] \in excessiveCapabilities
    THEN "capabilities"
    ELSE ""

\* foundPrivilegedVulnerabilityContainer: the reason of the first container
\* that has one.
foundPrivilegedVulnerabilityContainer(containers) ==
    LET reasons == [n \in 1..Len(containers) |->
                       foundSecurityContextPrivilegedVulnerability(containers[n])]
        idx == IndexFunc(reasons, Elements(reasons) \ {""})
    IN  IF idx > -1 THEN reasons[idx] ELSE ""

\* doesPrivilegedContainerExist: the two reasons, one after the other.
doesPrivilegedContainerExist(pod) ==
    <<foundPrivilegedVulnerabilityContainer(pod.containers.init \o pod.containers.regular),
      foundPrivilegedVulnerabilityContainer(pod.containers.ephemeral)>>

\* isPrivilegedPod: the conversion to a v1.Pod, then the containers.
isPrivilegedPod(podResource) ==
    IF ~podResource.convertible
    THEN [privilegedPodMsg |-> <<"", "">>, err |-> "conversion error"]
    ELSE [privilegedPodMsg |-> doesPrivilegedContainerExist(podResource), err |-> Nil]

IsPreApproved(val, pod) ==
    IndexFunc(val.preApprovedPods,
              {q \in Elements(val.preApprovedPods) : SameIdentity(q, pod)}) >= 0

\* The range loop of PrivilegedPodsValidator.Validate from pod i on.
RECURSIVE PrivilegedPodsLoop(_, _, _, _, _)
PrivilegedPodsLoop(env, val, pods, i, violations) ==
    IF i > Len(pods) THEN [violations |-> violations, err |-> Nil]
    ELSE IF IsExempt(env, pods[i]) \/ IsPreApproved(val, pods[i])
    THEN PrivilegedPodsLoop(env, val, pods, i + 1, violations)
    ELSE LET answer == isPrivilegedPod(pods[i])
         IN  IF answer.err # Nil THEN [violations |-> <<>>, err |-> answer.err]
             ELSE IF answer.privilegedPodMsg # <<"", "">>
             THEN PrivilegedPodsLoop(env, val, pods, i + 1,
                      Append(violations,
                             NewViolation(pods[i], "found privileged pod", 1,
                                          "built-in:privileged-pods")))
             ELSE PrivilegedPodsLoop(env, val, pods, i + 1, violations)

\* PrivilegedPodsValidator.Validate
PrivilegedPodsValidate(env, val, resources) ==
    PrivilegedPodsLoop(env, val, GetPods(resources), 1, <<>>)

PrivilegedPodsCall ==
    /\ pc = "called"
    /\ v.impl = "privileged-pods"
    /\ LET result == PrivilegedPodsValidate(hist, v, call.resources)
       IN  ValidatorReturns(result.violations, result.err)
    /\ call' = [call EXCEPT !.pods = GetPods(call.resources)]
    /\ UNCHANGED <<v, alreadyTriedToConnect, hist>>

(***************************************************************************)
(* The calls that are followed: a validator instance as its constructor    *)
(* leaves it, a snapshot, and an environment.                              *)
(***************************************************************************)
\* common.ExemptPodLabelName / ExemptPodLabelValue: the defaults, or what
\* loadConfiguration or a caller has put there.
ExemptSettings ==
    { [ExemptPodLabelName |-> "resources.gardener.cloud/managed-by",
       ExemptPodLabelValue |-> "gardener"],
      [ExemptPodLabelName |-> "label1", ExemptPodLabelValue |-> "exempt"] }

Environment(setting, file) ==
    [ExemptPodLabelName |-> setting.ExemptPodLabelName,
     ExemptPodLabelValue |-> setting.ExemptPodLabelValue,
     file |-> file]

NoFile == [state |-> "missing", items |-> <<>>]

LabelSets ==
    { {}, {<<"label1", "exempt">>}, {<<"label1", "other">>}, {<<"label2", "exempt">>} }

NotYetReturned == [returned |-> FALSE, violations |-> <<>>, err |-> Nil]

\* A validator instance val is about to run Validate(resources) in env.
ValidatorCalled(val, resources, env) ==
    /\ v = val
    /\ alreadyTriedToConnect = FALSE
    /\ pc = "called"
    /\ call = [NoLocals EXCEPT !.resources = resources]
    /\ ret = NotYetReturned
    /\ hist = env

\* Zero or one resource, as a piece of a snapshot.
Optional(S) == {<<>>} \cup {<<r>> : r \in S}

\* Snapshots for allowed-pods: the pod p1, its possible owners rs1 and d1 with
\* owner references that make chains and cycles, and a second pod.
AllowedPodsSnapshots ==
    LET podRefs == {<<>>, <<OwnerReference(KIND_REPLICA_SET, "rs1")>>,
                    <<OwnerReference(KIND_DEPLOYMENT, "d1")>>,
                    <<OwnerReference(KIND_REPLICA_SET, "rs1"),
                      OwnerReference(KIND_DEPLOYMENT, "d1")>>,
                    <<OwnerReference(KIND_DEPLOYMENT, "d1"),
                      OwnerReference(KIND_REPLICA_SET, "rs1")>>}
        rsRefs == {<<>>, <<OwnerReference(KIND_DEPLOYMENT, "d1")>>,
                   <<OwnerReference(KIND_REPLICA_SET, "rs1")>>,
                   <<OwnerReference(KIND_POD, "p1")>>}
        dRefs == {<<>>, <<OwnerReference(KIND_REPLICA_SET, "rs1")>>}
        p1s == {[Obj(KIND_POD, "p1", "ns") EXCEPT !.labels = l, !.ownerReferences = o] :
                    l \in LabelSets \ {{<<"label2", "exempt">>}}, o \in podRefs}
        rs1s == {[Obj(KIND_REPLICA_SET, "rs1", "ns") EXCEPT !.ownerReferences = o] :
                    o \in rsRefs}
        d1s == {[Obj(KIND_DEPLOYMENT, "d1", "ns") EXCEPT !.ownerReferences = o] :
                    o \in dRefs}
    IN  {<<p1>> \o rs1 \o d1 \o p2 :
            p1 \in p1s, rs1 \in Optional(rs1s), d1 \in Optional(d1s),
            p2 \in Optional({Obj(KIND_POD, "p2", "ns")})}

Allowlists ==
    { <<>>,
      <<ListItem(KIND_POD, "p1", "ns")>>,
      <<ListItem(KIND_POD, "p1", "other")>>,
      <<ListItem(KIND_REPLICA_SET, "rs1", "ns")>>,
      <<ListItem(KIND_REPLICA_SET, "rs1", "other")>>,
      <<ListItem(KIND_DEPLOYMENT, "d1", "ns")>>,
      <<ListItem(KIND_DEPLOYMENT, "d1", "ns"), ListItem(KIND_POD, "p2", "ns")>> }

\* NewAllowedPodsValidator
NewAllowedPodsValidator == [impl |-> "allowed-pods", allowedPods |-> <<>>]

InitAllowedPods ==
    \E resources \in AllowedPodsSnapshots, file \in ListFiles(Allowlists),
       setting \in ExemptSettings :
        ValidatorCalled(NewAllowedPodsValidator, resources, Environment(setting, file))

\* Snapshots for readiness: the pod p1 with every shape of status, and a
\* resource q1 of another kind.
Condition(type, status) == [type |-> type, status |-> status]

ConditionsPool ==
    { NoConditions,
      [found |-> TRUE, ok |-> FALSE, items |-> <<>>],
      [found |-> TRUE, ok |-> TRUE, items |-> <<>>],
      [found |-> TRUE, ok |-> TRUE, items |-> <<Condition("Ready", "True")>>],
      [found |-> TRUE, ok |-> TRUE, items |-> <<Condition("Ready", "False")>>],
      [found |-> TRUE, ok |-> TRUE, items |-> <<Condition("ContainersReady", "True")>>],
      [found |-> TRUE, ok |-> TRUE,
       items |-> <<Condition("ContainersReady", "True"), Condition("Ready", "True")>>] }

ReadyPool ==
    { NoReady,
      [found |-> TRUE, ok |-> FALSE, value |-> FALSE],
      [found |-> TRUE, ok |-> TRUE, value |-> TRUE],
      [found |-> TRUE, ok |-> TRUE, value |-> FALSE] }

ReadinessSnapshots ==
    LET p1s == {[Obj(KIND_POD, "p1", "ns") EXCEPT
                    !.labels = l, !.status = [conditions |-> c, ready |-> r]] :
                    l \in {{}, {<<"label1", "exempt">>}}, c \in ConditionsPool, r \in ReadyPool}
        q1s == {[Obj("Policy", "q1", "ns") EXCEPT !.status = st] :
                    st \in {NoStatus,
                            [NoStatus EXCEPT !.ready = [found |-> TRUE, ok |-> TRUE,
                                                        value |-> TRUE]],
                            [NoStatus EXCEPT !.conditions =
                                [found |-> TRUE, ok |-> TRUE,
                                 items |-> <<Condition("Ready", "False")>>]]}}
    IN  {<<p1, q1>> : p1 \in p1s, q1 \in q1s}

ReadinessEntries ==
    { ListItem(KIND_POD, "p1", "ns"), ListItem("Policy", "q1", "ns"),
      ListItem(KIND_POD, "gone", "ns") }

\* NewReadinessValidator
NewReadinessValidator(ignoreMissingResources) ==
    [impl |-> "readiness", ignoreMissingResources |-> ignoreMissingResources]

InitReadiness ==
    \E resources \in ReadinessSnapshots,
       file \in ListFiles(SeqUpTo(ReadinessEntries, MaxEntries)),
       ignoreMissingResources \in BOOLEAN, setting \in ExemptSettings :
        ValidatorCalled(NewReadinessValidator(ignoreMissingResources), resources,
                        Environment(setting, file))

\* Snapshots for freshness: the pod p1 of every age, and a second resource.
CreationTimestamps ==
    {NoCreationTimestamp} \cup {CreatedAgo(m) : m \in {-30, 0, 30, 60, 61, 90, 120, 121}}

FreshnessSnapshots ==
    LET p1s == {[Obj(KIND_POD, "p1", "ns") EXCEPT !.labels = l, !.creationTimestamp = t] :
                    l \in LabelSets, t \in CreationTimestamps}
        others == {[Obj(KIND_REPLICA_SET, "rs1", "ns") EXCEPT
                        !.creationTimestamp = CreatedAgo(90)],
                   [Obj(KIND_POD, "p2", "ns") EXCEPT !.creationTimestamp = CreatedAgo(90)],
                   Obj(KIND_POD, "p2", "ns")}
    IN  {<<p1>> \o other : p1 \in p1s, other \in Optional(others)}

ThresholdsInHours == {-1, 0, 1, 2}

\* NewFreshnessValidator
NewFreshnessValidator(freshnessThresholdInHours) ==
    [impl |-> "freshness", freshnessThresholdInHours |-> freshnessThresholdInHours]

InitFreshness ==
    \E resources \in FreshnessSnapshots, threshold \in ThresholdsInHours,
       setting \in ExemptSettings :
        ValidatorCalled(NewFreshnessValidator(threshold), resources,
                        Environment(setting, NoFile))

\* Snapshots for privileged-pods: the pod p1 with one container of every kind
\* of security context, as init, regular or ephemeral container, alone or
\* after a harmless container; and a second resource.
SecurityContexts ==
    { NilSecurityContext, EmptySecurityContext,
      [EmptySecurityContext EXCEPT !.Privileged = "true"],
      [EmptySecurityContext EXCEPT !.Privileged = "false"],
      [EmptySecurityContext EXCEPT !.AllowPrivilegeEscalation = "true"],
      [EmptySecurityContext EXCEPT !.AllowPrivilegeEscalation = "false"],
      [EmptySecurityContext EXCEPT !.ProcMount = "Unmasked"],
      [EmptySecurityContext EXCEPT !.ProcMount = "Default"],
      [EmptySecurityContext EXCEPT !.Add = <<capabilityCapSysAdmin>>],
      [EmptySecurityContext EXCEPT !.Add = <<"NET_ADMIN">>],
      [EmptySecurityContext EXCEPT !.Add = <<"NET_ADMIN", capabilityCapSysAdmin>>] }

ContainerLists ==
    LET lists == {<<sc>> : sc \in SecurityContexts}
                    \cup {<<EmptySecurityContext, sc>> : sc \in SecurityContexts}
    IN  {NoContainers}
            \cup {[NoContainers EXCEPT !.init = l] : l \in lists}
            \cup {[NoContainers EXCEPT !.regular = l] : l \in lists}
            \cup {[NoContainers EXCEPT !.ephemeral = l] : l \in lists}

PrivilegedContainer == <<[EmptySecurityContext EXCEPT !.Privileged = "true"]>>

PrivilegedPodsSnapshots ==
    LET p1s == {[Obj(KIND_POD, "p1", "ns") EXCEPT
                    !.labels = l, !.containers = c, !.convertible = ok] :
                    l \in {{}, {<<"label1", "exempt">>}}, c \in ContainerLists,
                    ok \in BOOLEAN}
        others == {[Obj(KIND_POD, "p2", "ns") EXCEPT
                        !.containers = [NoContainers EXCEPT !.regular = PrivilegedContainer]],
                   [Obj(KIND_POD, "p2", "ns") EXCEPT !.convertible = FALSE],
                   [Obj(KIND_REPLICA_SET, "rs1", "ns") EXCEPT
                        !.containers = [NoContainers EXCEPT !.regular = PrivilegedContainer]]}
    IN  {<<p1>> \o other : p1 \in p1s, other \in Optional(others)}

PreApprovedLists ==
    { <<>>, <<Obj(KIND_POD, "p1", "ns")>>, <<Obj(KIND_POD, "p1", "other")>>,
      <<Obj(KIND_REPLICA_SET, "p1", "ns")>>, <<Obj(KIND_POD, "p2", "ns")>> }

\* NewPrivilegedPodsValidator, then SetPreApprovedPods
NewPrivilegedPodsValidator(pods) == [impl |-> "privileged-pods", preApprovedPods |-> pods]

InitPrivilegedPods ==
    \E resources \in PrivilegedPodsSnapshots, pods \in PreApprovedLists,
       setting \in ExemptSettings :
        ValidatorCalled(NewPrivilegedPodsValidator(pods), resources,
                        Environment(setting, NoFile))

InitValidators ==
    \/ InitAllowedPods
    \/ InitReadiness
    \/ InitFreshness
    \/ InitPrivilegedPods

NextValidators ==
    \/ AllowedPodsStart
    \/ AllowedPodsNextPod
    \/ AllowedPodsWalk
    \/ AllowedPodsWalked
    \/ ReadinessStart
    \/ ReadinessNextEntry
    \/ FreshnessCall
    \/ PrivilegedPodsCall

SpecValidators == InitValidators /\ [][NextValidators]_vars

\* The calls of allowed-pods alone.  A running call takes its next step:
\* nothing but the end of the process keeps a Go function from going on.
NextAllowedPods ==
    \/ AllowedPodsStart
    \/ AllowedPodsNextPod
    \/ AllowedPodsWalk
    \/ AllowedPodsWalked

SpecAllowedPods ==
    InitAllowedPods /\ [][NextAllowedPods]_vars /\ WF_vars(NextAllowedPods)

(***************************************************************************)
(* Properties of the built-in validators.  What a call is expected to do   *)
(* is stated on the snapshot, the list file and the exemption settings,    *)
(* not on the locals of the call.                                          *)
(***************************************************************************)
ValidatorReturned(impl) == pc = "returned" /\ v.impl = impl

Id(r) == <<r.kind, r.name, r.namespace>>

\* The identities one owner reference away from id: kind and name of the
\* reference, namespace of the child; a child that is not in the snapshot shows
\* no references.
OwnersOf(resources, id) ==
    {<<ref.Kind, ref.Name, id[3]>> :
        ref \in UNION {Elements(r.ownerReferences) :
                          r \in {x \in Elements(resources) : Id(x) = id}}}

RECURSIVE Closure(_, _)
Closure(resources, ids) ==
    LET more == ids \cup UNION {OwnersOf(resources, id) : id \in ids}
    IN  IF more = ids THEN ids ELSE Closure(resources, more)

\* The target and everything reached from it by following owner references.
Ancestry(resources, target) == Closure(resources, {Id(target)})

OnCycle(resources, id) == id \in Closure(resources, OwnersOf(resources, id))

AcyclicSnapshot(resources) == \A r \in Elements(resources) : ~OnCycle(resources, Id(r))

AllowlistedIds == {<<e.Kind, e.Name, e.Namespace>> : e \in Elements(hist.file.items)}

ReachesAllowlisted(resources, target) ==
    Ancestry(resources, target) \cap AllowlistedIds # {}

HasExemptionLabel(r) ==
    <<hist.ExemptPodLabelName, hist.ExemptPodLabelValue>> \in r.labels

\* isInAllowlist has just returned to Validate for the pod call.pods[call.i].
WalkReturned == pc = "walk" /\ call.stack = <<>> /\ call.found # "none"

\* C11: on a snapshot whose owner-reference graph is acyclic, isInAllowlist
\* returns true for a target exactly when the identity of the target, or of a
\* candidate reached by following owner references (kind and name of the
\* reference, namespace of the child, references visible only for candidates
\* that are in the snapshot), is in the allowlist.
C11_WalkFindsAllowlistedAncestor ==
    (WalkReturned /\ AcyclicSnapshot(call.resources)) =>
        ((call.found = "yes") <=> ReachesAllowlisted(call.resources, call.pods[call.i]))

\* The walk answered true for a pod that is not in the allowlist and whose
\* owner's owner is.
C11_Witness ==
    /\ WalkReturned
    /\ AcyclicSnapshot(call.resources)
    /\ call.found = "yes"
    /\ call.pods[call.i].ownerReferences = <<OwnerReference(KIND_REPLICA_SET, "rs1")>>
    /\ AllowlistedIds = {<<KIND_DEPLOYMENT, "d1", "ns">>}

\* The same identity is twice among the frames of the walk: the walk has gone
\* round an owner-reference cycle.
RevisitOnStack ==
    \E m, n \in 1..Len(call.stack) :
        m < n /\ SameIdentity(call.stack[m].item, call.stack[n].item)

\* The walk for a pod begins, a cycle is reachable from the pod and no
\* allowlisted identity is.
WalkIntoCycleOnly ==
    /\ pc = "walk"
    /\ Len(call.stack) = 1
    /\ ~call.stack[1].entered
    /\ \E id \in Ancestry(call.resources, call.stack[1].item) : OnCycle(call.resources, id)
    /\ ~ReachesAllowlisted(call.resources, call.stack[1].item)

\* C12: the ownership walk has no visited set and no depth limit.  On a snapshot
\* whose owner-reference graph is acyclic the allowed-pods Validate returns; once
\* the walk has entered an owner-reference cycle without having found an
\* allowlisted identity, isInAllowlist, and with it Validate, never returns.
C12_WalkTerminatesIffNoCycleEntered ==
    /\ [](( pc = "called" /\ v.impl = "allowed-pods" /\ AcyclicSnapshot(call.resources))
            => <>(pc = "returned"))
    /\ [](RevisitOnStack => [](pc # "returned"))
    /\ [](WalkIntoCycleOnly => [](pc # "returned"))

\* The recursion went round a cycle until the stack was used up, although an
\* owner reference that comes later in the list of the pod is allowlisted.
C12_Witness ==
    /\ pc = "overflow"
    /\ RevisitOnStack
    /\ ReachesAllowlisted(call.resources, call.stack[1].item)

\* The violations the allowed-pods validator is expected to return: the pods
\* of the snapshot, in order, that are not exempt and reach no allowlisted
\* identity.
IsUnallowedPod(r) ==
    /\ r.kind = KIND_POD
    /\ ~HasExemptionLabel(r)
    /\ ~ReachesAllowlisted(call.resources, r)

ExpectedUnallowed ==
    LET unallowed == SelectSeq(call.resources, IsUnallowedPod)
    IN  [n \in 1..Len(unallowed) |->
            NewViolation(unallowed[n], "NOT found in allowlist", 1, "built-in:allowed-pods")]

\* C13: with a readable allowlist, the allowed-pods validator returns exactly
\* one level-1 violation for each non-exempt Pod of the snapshot for which the
\* ownership walk finds no allowlisted identity, and none for a Pod whose owner
\* chain reaches an allowlisted identity nor for a resource that is not a Pod.
C13_OneViolationPerUnallowedPod ==
    (ValidatorReturned("allowed-pods") /\ hist.file.state = "ok") =>
        /\ ret.err = Nil
        /\ ret.violations = ExpectedUnallowed

\* Two pods: the first is allowed through the owner of its owner, the second
\* has no owner references and is the one violation.
C13_Witness ==
    /\ ValidatorReturned("allowed-pods")
    /\ Len(call.pods) = 2
    /\ call.pods[1].labels = {}
    /\ call.pods[1].ownerReferences = <<OwnerReference(KIND_REPLICA_SET, "rs1")>>
    /\ AllowlistedIds = {<<KIND_DEPLOYMENT, "d1", "ns">>}
    /\ Len(ret.violations) = 1
    /\ ret.violations[1].Resource = call.pods[2]
    /\ ret.violations[1].Level = 1

\* C14: when its list file (allowlist.yaml for allowed-pods, readinesslist.yaml
\* for readiness) is missing or cannot be parsed, Validate returns a non-nil
\* error and no violations, for every snapshot.
C14_UnloadableListIsAnError ==
    ((ValidatorReturned("allowed-pods") \/ ValidatorReturned("readiness"))
        /\ hist.file.state # "ok") =>
        /\ ret.err # Nil
        /\ ret.violations = <<>>

\* The readiness validator returned for an unparseable list; the allowed-pods
\* validator is covered by the same formula.
C14_Witness ==
    /\ ValidatorReturned("readiness")
    /\ hist.file.state = "unparseable"
    /\ ret.err = "yaml error"

\* The number of violations of the returned list whose target is r.
Targeting(r) == {n \in 1..Len(ret.violations) : ret.violations[n].Resource = r}

\* Stale by the rule of the freshness validator: there is a creation timestamp
\* and more than threshold hours have gone by since.
OlderThan(r, hours) ==
    /\ ~r.creationTimestamp.isZero
    /\ r.creationTimestamp.age > hours * MinutesPerHour

\* One of the containers of r has a security context that is privileged, allows
\* privilege escalation, adds CAP_SYS_ADMIN or unmasks /proc.
RiskyContext(sc) ==
    /\ ~sc.isNil
    /\ \/ sc.Privileged = "true"
       \/ sc.AllowPrivilegeEscalation = "true"
       \/ sc.ProcMount = "Unmasked"
       \/ "CAP_SYS_ADMIN" \in Elements(sc.Add)

HasRiskyContainer(r) ==
    \E sc \in Elements(r.containers.init) \cup Elements(r.containers.regular)
                \cup Elements(r.containers.ephemeral) : RiskyContext(sc)

MatchesPreApproved(r) ==
    \E q \in Elements(v.preApprovedPods) : Id(q) = Id(r)

\* What each of the three validators would report a pod for, its labels aside.
WouldBeReported(r) ==
    /\ r.kind = KIND_POD
    /\ ret.err = Nil
    /\ CASE v.impl = "allowed-pods" -> ~ReachesAllowlisted(call.resources, r)
         [] v.impl = "freshness" -> OlderThan(r, v.freshnessThresholdInHours)
         [] v.impl = "privileged-pods" -> HasRiskyContainer(r) /\ ~MatchesPreApproved(r)

HonoursExemption ==
    ValidatorReturned("allowed-pods") \/ ValidatorReturned("freshness")
        \/ ValidatorReturned("privileged-pods")

\* C15: a Pod whose labels hold the configured exemption label name with the
\* configured value gets no violation from allowed-pods, freshness and
\* privileged-pods, whatever its allowlist membership, age or security contexts;
\* a Pod without that exact pair is not exempt: it is reported when the
\* validator has cause to.
C15_ExemptionLabelSuppresses ==
    HonoursExemption =>
        \A r \in Elements(call.resources) :
            /\ (r.kind = KIND_POD /\ HasExemptionLabel(r)) => Targeting(r) = {}
            /\ (~HasExemptionLabel(r) /\ WouldBeReported(r)) => Targeting(r) # {}

\* A privileged pod with the exemption label is not reported, and the
\* privileged pod without it, in the same snapshot, is.
C15_Witness ==
    /\ ValidatorReturned("privileged-pods")
    /\ Len(call.pods) = 2
    /\ HasExemptionLabel(call.pods[1])
    /\ HasRiskyContainer(call.pods[1])
    /\ ~MatchesPreApproved(call.pods[1])
    /\ Len(ret.violations) = 1
    /\ ret.violations[1].Resource = call.pods[2]

\* The entries of the readiness list that name r.
EntriesNaming(r) ==
    {n \in 1..Len(hist.file.items) :
        <<hist.file.items[n].Kind, hist.file.items[n].Name, hist.file.items[n].Namespace>>
            = Id(r)}

HasReadyTrueCondition(r) ==
    /\ r.status.conditions.found
    /\ \E c \in Elements(r.status.conditions.items) : c.type = "Ready" /\ c.status = "True"

HasReadyField(r) == r.status.ready.found /\ r.status.ready.value

WellTypedStatus(r) == r.status.conditions.ok /\ r.status.ready.ok

\* Not ready on any reading: neither a Ready/True condition nor ready = true.
PlainlyNotReady(r) ==
    WellTypedStatus(r) /\ ~HasReadyTrueCondition(r) /\ ~HasReadyField(r)

ReadinessReturned == ValidatorReturned("readiness") /\ hist.file.state = "ok"

\* C16, as claimed: the readiness validator honours the exemption label, so a
\* listed resource that carries it yields no readiness violation even when it
\* is not ready.
C16_ReadinessHonoursExemption ==
    ReadinessReturned =>
        \A r \in Elements(call.resources) : HasExemptionLabel(r) => Targeting(r) = {}

\* C16, as the code has it: the readiness validator does not look at the
\* exemption label; a listed resource that carries it and is not ready yields
\* one violation for each entry that names it, like any other resource.
C16_ReadinessIgnoresExemption ==
    ReadinessReturned =>
        \A r \in Elements(call.resources) :
            (HasExemptionLabel(r) /\ PlainlyNotReady(r)) =>
                Cardinality(Targeting(r)) = Cardinality(EntriesNaming(r))

\* A listed pod with the exemption label and without any status is reported.
C16_Witness ==
    /\ ReadinessReturned
    /\ HasExemptionLabel(call.resources[1])
    /\ call.resources[1].status = NoStatus
    /\ EntriesNaming(call.resources[1]) = {1}
    /\ ret.violations = <<ReadinessViolation(call.resources[1])>>

\* C17: a resource found for a readiness entry is ready exactly when its
\* status.conditions has a Ready/True entry or its status.ready is true (so also
\* when the conditions lack Ready/True and status.ready is true); a ready
\* resource yields no violation and one that is not ready yields one for the
\* entry.
C17_ReadyByConditionOrField ==
    ReadinessReturned =>
        \A r \in Elements(call.resources) :
            WellTypedStatus(r) =>
                Cardinality(Targeting(r)) =
                    IF HasReadyTrueCondition(r) \/ HasReadyField(r) THEN 0
                    ELSE Cardinality(EntriesNaming(r))

\* The resource Validate makes up for an entry that is not in the snapshot.
Synthesized(e) == Obj(e.Kind, e.Name, e.Namespace)

IsMissing(e) == \A r \in Elements(call.resources) : Id(r) # Id(Synthesized(e))

\* C18: for every readiness entry that matches no resource of the snapshot the
\* validator records exactly one violation, on a resource made up of the
\* entry's kind, name and namespace, when ignoreMissingResources is false, and
\* nothing when it is true; either way the other entries are still evaluated.
C18_MissingEntryReportedUnlessIgnored ==
    ReadinessReturned =>
        /\ \A e \in Elements(hist.file.items) :
              IsMissing(e) =>
                  Cardinality(Targeting(Synthesized(e))) =
                      IF v.ignoreMissingResources THEN 0
                      ELSE Cardinality({n \in 1..Len(hist.file.items) :
                                            hist.file.items[n] = e})
        /\ \A r \in Elements(call.resources) :
              PlainlyNotReady(r) =>
                  Cardinality(Targeting(r)) = Cardinality(EntriesNaming(r))

\* The first entry is missing and reported, the second is a pod that is not
\* ready and reported after it.
C18_Witness ==
    /\ ReadinessReturned
    /\ ~v.ignoreMissingResources
    /\ Len(hist.file.items) = 2
    /\ IsMissing(hist.file.items[1])
    /\ EntriesNaming(call.resources[1]) = {2}
    /\ ret.violations = <<ReadinessViolation(Synthesized(hist.file.items[1])),
                          ReadinessViolation(call.resources[1])>>

IsStalePod(r) ==
    r.kind = KIND_POD /\ ~HasExemptionLabel(r) /\ OlderThan(r, v.freshnessThresholdInHours)

ExpectedStale ==
    LET stale == SelectSeq(call.resources, IsStalePod)
    IN  [n \in 1..Len(stale) |->
            NewViolation(stale[n], "Pod is stale", 1, "built-in:freshness")]

IsEvaluatedPod(r) ==
    r.kind = KIND_POD /\ ~HasExemptionLabel(r) /\ ~MatchesPreApproved(r)

IsPrivilegedPod(r) == IsEvaluatedPod(r) /\ HasRiskyContainer(r)

ExpectedPrivileged ==
    LET privileged == SelectSeq(call.resources, IsPrivilegedPod)
    IN  [n \in 1..Len(privileged) |->
            NewViolation(privileged[n], "found privileged pod", 1,
                         "built-in:privileged-pods")]

\* C20: the violations the privileged-pods validator returns are exactly one
\* level-1 violation for each Pod that is not exempt, matches no pre-approved
\* pod by (name, namespace, kind), and has an init, regular or ephemeral
\* container whose security context is privileged, allows privilege
\* escalation, adds CAP_SYS_ADMIN or has procMount Unmasked; a nil security
\* context never counts.  (A validation that fails, because a Pod it looks into
\* does not convert to a v1.Pod, returns the error and no violations.)
C20_PrivilegedIffRiskyContainer ==
    ValidatorReturned("privileged-pods") =>
        IF \E r \in Elements(call.resources) : IsEvaluatedPod(r) /\ ~r.convertible
        THEN ret.err # Nil /\ ret.violations = <<>>
        ELSE /\ ret.err = Nil
             /\ ret.violations = ExpectedPrivileged
             /\ \A r \in Elements(call.resources) :
                    (Cardinality(Targeting(r)) = 1) <=> IsPrivilegedPod(r)

\* A pod is reported for its second ephemeral container, which adds
\* CAP_SYS_ADMIN after another capability.
C20_Witness ==
    /\ ValidatorReturned("privileged-pods")
    /\ ret.err = Nil
    /\ call.pods[1].containers.ephemeral =
          <<EmptySecurityContext,
            [EmptySecurityContext EXCEPT !.Add = <<"NET_ADMIN", "CAP_SYS_ADMIN">>]>>
    /\ Len(ret.violations) >= 1
    /\ ret.violations[1].Resource = call.pods[1]
    /\ ret.violations[1].Level = 1

(***************************************************************************)
(* The sample program's aggregation stage (cmd/sample.go) and the grouping *)
(* of violations it relies on (pkg/common/utils.go).                       *)
(*                                                                         *)
(* The variables are used as before: call holds the input of the call, ret *)
(* its result, pc the position (main, grouped, aggregated).  v and hist    *)
(* play no part.                                                           *)
(***************************************************************************)
MaxInput == 3

\* A violation's target as the grouping reads it: GetKind, GetName, GetNamespace
\* and the group of GroupVersionKind.  Names and namespaces are DNS labels and
\* may contain '-'.
Target(kind, name, namespace, group) ==
    [kind |-> kind, name |-> name, namespace |-> namespace, group |-> group]

TargetPool ==
    { Target(KIND_POD, "a-b", "c", ""),
      Target(KIND_POD, "a", "b-c", ""),
      Target(KIND_POD, "a", "c", ""),
      Target(KIND_DEPLOYMENT, "a", "c", "apps") }

PrivilegedPodsValidatorName == "built-in:privileged-pods"
ValidatorNames == {PrivilegedPodsValidatorName, "built-in:freshness", "built-in:allowed-pods"}

\* What Validate hands to the aggregation: violations of level 1 by the
\* built-in validators.
ViolationPool ==
    { NewViolation(r, "reported", 1, n) : r \in TargetPool, n \in ValidatorNames }

\* fmt.Sprintf("%s-%s-%s-%s", kind, name, namespace, group)
Key(violation) ==
    violation.Resource.kind \o "-" \o violation.Resource.name \o "-"
        \o violation.Resource.namespace \o "-" \o violation.Resource.group

\* The orders in which "range tempMap" may visit the keys.
Orders(keys) ==
    { o \in [1..Cardinality(keys) -> keys] :
        \A i, j \in 1..Cardinality(keys) : i # j => o[i] # o[j] }

\* tempMap[key] once the first loop is over
tempMap(violations, key) ==
    SelectSeq(violations, LAMBDA violation : Key(violation) = key)

\* The responses the function may give: one slice per key of tempMap, in the
\* order the map is iterated.
GetViolationsGroupedByResource(violations) ==
    LET keys == { Key(violations[i]) : i \in 1..Len(violations) }
    IN  { [i \in 1..Cardinality(keys) |-> tempMap(violations, o[i])] : o \in Orders(keys) }

RECURSIVE JoinNames(_)
\* the strings.Builder of getCustomViolations: names separated by "+"
JoinNames(violationsPerResource) ==
    IF Len(violationsPerResource) = 1
    THEN violationsPerResource[1].ValidatorName
    ELSE JoinNames(SubSeq(violationsPerResource, 1, Len(violationsPerResource) - 1))
            \o "+" \o violationsPerResource[Len(violationsPerResource)].ValidatorName

\* What one pass of the loop of getCustomViolations appends.
customViolationsOf(violationsPerResource) ==
    IF Len(violationsPerResource) = 1
    THEN IF violationsPerResource[1].ValidatorName # PrivilegedPodsValidatorName
         THEN <<violationsPerResource[1]>>
         ELSE <<>>
    ELSE IF Len(violationsPerResource) > 1
    THEN << [Resource |-> violationsPerResource[1].Resource,
             Message |-> "aggregated violation",
             Level |-> 0,
             ValidatorName |-> JoinNames(violationsPerResource)] >>
    ELSE <<>>

\* getCustomViolations once the grouping has answered violationsGroupedByResource
getCustomViolations(violationsGroupedByResource) ==
    Flatten([i \in 1..Len(violationsGroupedByResource) |->
                customViolationsOf(violationsGroupedByResource[i])])

InitAggregate ==
    /\ v = Nil
    /\ alreadyTriedToConnect = FALSE
    /\ pc = "main"
    /\ \E originalViolations \in SeqUpTo(ViolationPool, MaxInput) :
          call = [originalViolations |-> originalViolations]
    /\ ret = [returned |-> FALSE, groups |-> <<>>, violations |-> <<>>]
    /\ hist = Nil

\* common.GetViolationsGroupedByResource(originalViolations), called on its own
GroupCall ==
    /\ pc = "main"
    /\ \E response \in GetViolationsGroupedByResource(call.originalViolations) :
          ret' = [returned |-> TRUE, groups |-> response, violations |-> <<>>]
    /\ pc' = "grouped"
    /\ UNCHANGED <<v, alreadyTriedToConnect, call, hist>>

\* aggregatedViolations := getCustomViolations(violations)
CustomViolationsCall ==
    /\ pc = "main"
    /\ \E response \in GetViolationsGroupedByResource(call.originalViolations) :
          ret' = [returned |-> TRUE, groups |-> response,
                  violations |-> getCustomViolations(response)]
    /\ pc' = "aggregated"
    /\ UNCHANGED <<v, alreadyTriedToConnect, call, hist>>

NextAggregate == GroupCall \/ CustomViolationsCall

SpecAggregate == InitAggregate /\ [][NextAggregate]_vars

(***************************************************************************)
(* Properties of the aggregation stage.                                    *)
(***************************************************************************)
\* The input violations on target r, in input order.
Contributing(r) ==
    SelectSeq(call.originalViolations, LAMBDA violation : violation.Resource = r)

\* The output violations on target r.
OutputOn(r) ==
    SelectSeq(ret.violations, LAMBDA violation : violation.Resource = r)

Aggregated == pc = "aggregated" /\ ret.returned

\* Two targets of the input that differ and yet have one key.
KeysCollide ==
    \E i, j \in 1..Len(call.originalViolations) :
        /\ call.originalViolations[i].Resource # call.originalViolations[j].Resource
        /\ Key(call.originalViolations[i]) = Key(call.originalViolations[j])

\* C21: a resource that is the target of more than one input violation gets
\* exactly one output violation: level 0, message "aggregated violation", the
\* resource as target, and the '+'-joined validator names of its violations in
\* input order.
C21_RepeatedTargetAggregatedOnce ==
    Aggregated =>
        \A r \in TargetPool :
            Len(Contributing(r)) > 1 =>
                OutputOn(r) = << [Resource |-> r,
                                  Message |-> "aggregated violation",
                                  Level |-> 0,
                                  ValidatorName |-> JoinNames(Contributing(r))] >>

\* C22: a resource that is the target of exactly one input violation gets that
\* violation as its only output, or nothing when the violation is by
\* "built-in:privileged-pods"; a resource that is the target of no input
\* violation gets no output.
C22_SingleTargetPassesThrough ==
    Aggregated =>
        \A r \in TargetPool :
            /\ Len(Contributing(r)) = 1 =>
                  OutputOn(r) =
                     IF Contributing(r)[1].ValidatorName = PrivilegedPodsValidatorName
                     THEN <<>>
                     ELSE Contributing(r)
            /\ Len(Contributing(r)) = 0 => OutputOn(r) = <<>>

\* How often violation x occurs in the sequence s.
Occurrences(s, x) == Cardinality({ i \in 1..Len(s) : s[i] = x })

\* C23: the groups partition the input (every input violation is in exactly
\* one group, as often as the input has it; no group is empty), and two
\* violations share a group if and only if their targets have the same kind,
\* name, namespace and group.
C23_GroupsPartitionByTarget ==
    (pc = "grouped" /\ ret.returned) =>
        LET groups == ret.groups
            all == Flatten(groups)
        IN  /\ Len(all) = Len(call.originalViolations)
            /\ \A i \in 1..Len(call.originalViolations) :
                  /\ Occurrences(all, call.originalViolations[i])
                        = Occurrences(call.originalViolations, call.originalViolations[i])
                  /\ Cardinality({ g \in 1..Len(groups) :
                        Occurrences(groups[g], call.originalViolations[i]) > 0 }) = 1
            /\ \A g \in 1..Len(groups) : Len(groups[g]) > 0
            /\ \A g, h \in 1..Len(groups) :
                  \A a \in 1..Len(groups[g]), b \in 1..Len(groups[h]) :
                      (g = h) <=> (groups[g][a].Resource = groups[h][b].Resource)

\* The same three statements for inputs whose targets have distinct keys.
AggregationHoldsWithoutCollision ==
    ~KeysCollide =>
        /\ C21_RepeatedTargetAggregatedOnce
        /\ C22_SingleTargetPassesThrough
        /\ C23_GroupsPartitionByTarget

(***************************************************************************)
(* The configuration file and the abort coordinates of a new instance.     *)
(*                                                                         *)
(* v is the instance NewValidation returned, call.cfg the config.yaml it   *)
(* found, call.loadedAgain whether loadConfiguration has been called on    *)
(* the instance since (as the package's test does); ret is the gate's      *)
(* answer and hist what the gate looked at.                                *)
(***************************************************************************)
NoGate == [world |-> Nil, Namespace |-> "", Name |-> "", Field |-> ""]

InitConfig ==
    /\ \E cfg \in ConfigFiles :
          /\ v = NewValidation(cfg)
          /\ call = [cfg |-> cfg, loadedAgain |-> FALSE]
    /\ alreadyTriedToConnect = FALSE
    /\ pc = "constructed"
    /\ ret = [returned |-> FALSE, shouldAbort |-> FALSE, err |-> Nil]
    /\ hist = NoGate

\* validation.loadConfiguration() on the instance NewValidation returned
LoadConfigurationCall ==
    /\ pc = "constructed"
    /\ ~call.loadedAgain
    /\ v' = loadConfiguration(v, call.cfg)
    /\ call' = [call EXCEPT !.loadedAgain = TRUE]
    /\ UNCHANGED <<alreadyTriedToConnect, pc, ret, hist>>

\* v.shouldAbortValidation(v.ctx, *v.Client) of a run of the instance
ShouldAbortValidationCall ==
    /\ pc = "constructed"
    /\ \E world \in ConfigMapWorlds :
          LET r == shouldAbortValidation(v, world)
          IN  /\ ret' = [returned |-> TRUE, shouldAbort |-> r.shouldAbort, err |-> r.err]
              /\ hist' = [world |-> world,
                          Namespace |-> v.AbortValidationConfigMapNamespace,
                          Name |-> v.AbortValidationConfigMapName,
                          Field |-> v.AbortValidationConfigMapField]
    /\ pc' = "gated"
    /\ UNCHANGED <<v, alreadyTriedToConnect, call>>

NextConfig == LoadConfigurationCall \/ ShouldAbortValidationCall

SpecConfig == InitConfig /\ [][NextConfig]_vars

\* The value a key of config.yaml gives a coordinate: its own when set, else the default.
Configured(value, default) == IF value # "" THEN value ELSE default

\* C24: the instance NewValidation returns has the coordinates config.yaml
\* sets (the defaults center, landscape-state, deploying only for keys left
\* unset), and the gate of its runs reads the flag there.
C24_ConfigFileSetsAbortCoordinates ==
    ~call.loadedAgain =>
        LET namespace == Configured(call.cfg.configMapNamespace, "center")
            name == Configured(call.cfg.configMapName, "landscape-state")
            field == Configured(call.cfg.configMapField, "deploying")
        IN  /\ v.AbortValidationConfigMapNamespace = namespace
            /\ v.AbortValidationConfigMapName = name
            /\ v.AbortValidationConfigMapField = field
            /\ pc = "gated" =>
                  /\ hist.Namespace = namespace
                  /\ hist.Name = name
                  /\ hist.Field = field

(***************************************************************************)
(* Properties of the orchestrator's preparation (additional resource       *)
(* types, snapshot, client).                                               *)
(***************************************************************************)
DefaultResourceNames ==
    { DefaultResourceTypes[i].Resource : i \in 1..Len(DefaultResourceTypes) }

\* C25: when additionalResourceTypes.yaml does not exist, reading it gives no
\* kinds and no error and the fetch lists the eight default kinds only; when
\* it exists but cannot be read or parsed, Validate returns that error and
\* has not fetched, asked the gate or invoked a validator.
C25_MissingTypesFileIsEmptyBrokenIsError ==
    /\ hist.typesFile = "missing" =>
          /\ call.additionalResourceTypes = <<>>
          /\ NumberOfListCalls = 8
          /\ hist.preValidate.err \notin {"read error", "yaml error"}
          /\ hist.fetched =>
                /\ v.Resources = fetchResources(hist.fetchEnv, <<>>)
                /\ \A i \in 1..Len(v.Resources) : v.Resources[i].kind \in DefaultResourceNames
    /\ hist.typesFile \in {"unreadable", "unparseable"} =>
          /\ Returned
          /\ ret.err = << IF hist.typesFile = "unreadable" THEN "read error" ELSE "yaml error" >>
          /\ ret.violations = <<>>
          /\ ~hist.fetched
          /\ ~hist.gateRead
          /\ ~hist.abortFuncCalled
          /\ hist.invoked = <<>>

C25_Witness ==
    /\ Returned
    /\ hist.typesFile = "unparseable"
    /\ ret.err = <<"yaml error">>
    /\ hist.everFetched

\* C26: no two resources of a fetched snapshot have the same kind, name and
\* namespace, whatever the additional-resource-types list names.
C26_SnapshotIdentitiesUnique ==
    hist.fetched =>
        \A i, j \in 1..Len(v.Resources) :
            i # j =>
                <<v.Resources[i].kind, v.Resources[i].name, v.Resources[i].namespace>>
                    # <<v.Resources[j].kind, v.Resources[j].name, v.Resources[j].namespace>>

\* C28: a call of getClient gives an error or a provider with both clients;
\* so fetchResources is never reached with a provider that has none.
C28_GetClientGivesErrorOrUsableProvider ==
    /\ hist.getClient \in {"not called", "error", "initialised"}
    /\ pc \in {"fetch", "panic"} => v.Client = "initialised"

\* C29: when the readiness list loads, Validate returns a nil error wherever
\* in the list an entry stands whose readiness cannot be determined; such an
\* entry yields no violation.
C29_UndeterminedReadinessIsNotAnError ==
    ReadinessReturned =>
        /\ ret.err = Nil
        /\ \A r \in Elements(call.resources) : ~WellTypedStatus(r) => Targeting(r) = {}

(***************************************************************************)
(* Several Validate calls on one validator instance, with the same         *)
(* snapshot.  Between two calls the list file of the configuration         *)
(* directory may be rewritten, removed or corrupted.  hist holds, next to  *)
(* the environment, the number of the call, what the call before returned  *)
(* and the list file as it was when the validator was created.             *)
(***************************************************************************)
MaxCalls == 2

RepeatedAllowlists ==
    { <<>>, <<ListItem(KIND_POD, "p1", "ns")>>, <<ListItem(KIND_REPLICA_SET, "rs1", "ns")>> }

RepeatedReadinesslists ==
    { <<>>, <<ListItem(KIND_POD, "p1", "ns")>>, <<ListItem(KIND_POD, "gone", "ns")>>,
      <<ListItem(KIND_POD, "p1", "ns"), ListItem(KIND_POD, "gone", "ns")>> }

\* The contents the list file of a validator may have.
RepeatedFiles(impl) ==
    IF impl = "allowed-pods" THEN ListFiles(RepeatedAllowlists)
    ELSE ListFiles(RepeatedReadinesslists)

RepeatedAllowedPodsSnapshots ==
    LET p1s == {[Obj(KIND_POD, "p1", "ns") EXCEPT !.labels = l, !.ownerReferences = o] :
                    l \in {{}, {<<"label1", "exempt">>}},
                    o \in {<<>>, <<OwnerReference(KIND_REPLICA_SET, "rs1")>>}}
    IN  {<<p1>> \o rs1 \o p2 :
            p1 \in p1s,
            rs1 \in Optional({Obj(KIND_REPLICA_SET, "rs1", "ns")}),
            p2 \in Optional({Obj(KIND_POD, "p2", "ns")})}

RepeatedReadinessSnapshots ==
    {<<[Obj(KIND_POD, "p1", "ns") EXCEPT !.status = [conditions |-> c, ready |-> NoReady]]>> :
        c \in {NoConditions,
               [found |-> TRUE, ok |-> FALSE, items |-> <<>>],
               [found |-> TRUE, ok |-> TRUE, items |-> <<Condition("Ready", "True")>>]}}

\* The instance val, created when the list file was file, is about to run its
\* first Validate(resources).
FirstCall(val, resources, setting, file) ==
    /\ v = val
    /\ alreadyTriedToConnect = FALSE
    /\ pc = "called"
    /\ call = [NoLocals EXCEPT !.resources = resources]
    /\ ret = NotYetReturned
    /\ hist = [ExemptPodLabelName |-> setting.ExemptPodLabelName,
               ExemptPodLabelValue |-> setting.ExemptPodLabelValue,
               file |-> file,
               atInstantiation |-> file,
               calls |-> 1,
               previous |-> NotYetReturned]

InitRepeated ==
    \/ \E resources \in RepeatedAllowedPodsSnapshots,
          file \in RepeatedFiles("allowed-pods"), setting \in ExemptSettings :
            FirstCall(NewAllowedPodsValidator, resources, setting, file)
    \/ \E resources \in RepeatedReadinessSnapshots,
          file \in RepeatedFiles("readiness"), ignoreMissingResources \in BOOLEAN,
          setting \in ExemptSettings :
            FirstCall(NewReadinessValidator(ignoreMissingResources), resources, setting, file)

\* Somebody rewrites, removes or corrupts the list file after a call has returned.
ChangeListFile ==
    /\ pc = "returned"
    /\ hist.calls < MaxCalls
    /\ \E file \in RepeatedFiles(v.impl) :
          /\ file # hist.file
          /\ hist' = [hist EXCEPT !.file = file]
    /\ pc' = "between"
    /\ UNCHANGED <<v, alreadyTriedToConnect, call, ret>>

\* The caller calls Validate on the same instance with the same snapshot again.
ValidateAgain ==
    /\ pc \in {"returned", "between"}
    /\ hist.calls < MaxCalls
    /\ pc' = "called"
    /\ call' = [NoLocals EXCEPT !.resources = call.resources]
    /\ ret' = NotYetReturned
    /\ hist' = [hist EXCEPT !.calls = hist.calls + 1, !.previous = ret]
    /\ UNCHANGED <<v, alreadyTriedToConnect>>

NextRepeated ==
    \/ AllowedPodsStart
    \/ AllowedPodsNextPod
    \/ AllowedPodsWalk
    \/ AllowedPodsWalked
    \/ ReadinessStart
    \/ ReadinessNextEntry
    \/ ChangeListFile
    \/ ValidateAgain

SpecRepeated == InitRepeated /\ [][NextRepeated]_vars

(***************************************************************************)
(* Properties of repeated calls.                                           *)
(***************************************************************************)
LaterCallReturned == pc = "returned" /\ hist.calls > 1

\* C27, as claimed: the list is loaded once for the instance, so a later call
\* with the same snapshot returns the violations of the call before it,
\* whatever has happened to the list file in between.
C27_ListLoadedOncePerInstance ==
    LaterCallReturned => ret.violations = hist.previous.violations

\* C27, as the code has it: every Validate call reads the list file anew.  A
\* call returns an error and no violations when the file is missing or corrupt
\* at the time of the call, and otherwise the violations that the file's
\* content at that time gives, whatever an earlier call on the instance read.
C27_ListReadAtEveryCall ==
    pc = "returned" =>
        /\ hist.file.state # "ok" => (ret.err # Nil /\ ret.violations = <<>>)
        /\ (hist.file.state = "ok" /\ v.impl = "allowed-pods") =>
              (ret.err = Nil /\ ret.violations = ExpectedUnallowed)
        /\ (hist.file.state = "ok" /\ v.impl = "readiness") =>
              /\ \A e \in Elements(hist.file.items) :
                    IsMissing(e) =>
                        Cardinality(Targeting(Synthesized(e))) =
                            IF v.ignoreMissingResources THEN 0 ELSE 1
              /\ \A n \in 1..Len(ret.violations) :
                    \E e \in Elements(hist.file.items) :
                        Id(ret.violations[n].Resource) = Id(Synthesized(e))

\* The first call found the pod allowlisted; the allowlist was then emptied,
\* and the second call on the same snapshot reports the pod.
C27_Witness ==
    /\ LaterCallReturned
    /\ v.impl = "allowed-pods"
    /\ hist.atInstantiation.items = <<ListItem(KIND_POD, "p1", "ns")>>
    /\ hist.previous.returned
    /\ hist.previous.violations = <<>>
    /\ hist.file = [state |-> "ok", items |-> <<>>]
    /\ Len(ret.violations) = 1
    /\ ret.violations[1].Resource = call.resources[1]

\* The non-exempt pods of the snapshot that the call just returned did not report.
FoundAllowlisted ==
    SelectSeq(call.pods, LAMBDA pod : ~HasExemptionLabel(pod) /\ Targeting(pod) = {})

\* C30: after a call of allowed-pods, the allowedPods field holds the
\* non-exempt pods that this call found allowlisted, each once; what earlier
\* calls found is not in it any more.
C30_AllowedPodsHoldsLastCallOnly ==
    (ValidatorReturned("allowed-pods") /\ hist.file.state = "ok") =>
        v.allowedPods = FoundAllowlisted

============================================================================
